---- MODULE Spec2Model ----
(***************************************************************************)
(* RustyMind request-serving pipeline: the admission queue                 *)
(* (services/queue.rs), the stream relay (handlers/chat.rs over            *)
(* services/ollama.rs), the response cache (services/cache.rs), the        *)
(* request processor (services/batch.rs) and the chat handler              *)
(* (handlers/chat.rs).                                                     *)
(*                                                                         *)
(* Option<T> is modelled as a sequence of length <= 1: <<>> is None and    *)
(* <<x>> is Some(x).  A Rust String is a sequence of one-character         *)
(* strings, or of longer fragments that are never split, so that push_str  *)
(* and format! are sequence concatenation.  The clock of the cache counts  *)
(* whole seconds.                                                          *)
(***************************************************************************)
EXTENDS Integers, Sequences, FiniteSets, TLC

VARIABLES
    \* ---- QueueService (services/queue.rs)
    queue,            \* VecDeque<QueuedRequest>, front at index 1
    processing,       \* the queue-wide processing flag
    queue_lock,       \* holders of the RwLock around queue
    processing_lock,  \* holders of the RwLock around processing
    next_uuid,        \* source of fresh Uuid::new_v4() values
    pc,               \* per task: position inside the running operation
    local,            \* per task: arguments and locals of the running operation
    result,           \* the value returned by the latest step, if it was a return
    enq_order,        \* history: ids in the order push_back ran
    cancelled_ids,    \* history: ids for which cancel returned true
    dequeued_ids,     \* history: ids of the requests dequeue returned
    \* ---- stream_ollama_response (handlers/chat.rs)
    ls_pc,            \* position inside the generator
    use_cache,        \* the use_cache argument
    cache_key,        \* the cache_key argument
    ls_cur,           \* the OllamaResponse being handled
    accumulated,      \* the accumulated String
    ls_out,           \* chunks yielded to the client so far
    backend_sent,     \* history: events the backend wrote on the wire, in order
    ls_received,      \* history: items ollama_stream yielded
    lines_sent,       \* number of lines the backend has written so far
    cache_store,      \* the moka cache: key -> Option<String>
    cache_enabled,    \* config.enabled
    set_log,          \* history: cache.set calls as <<key, value>>, followed by the
                      \* caller where the request handlers made the call
    \* ---- stream_cached_response (handlers/chat.rs)
    rp_pc,            \* position inside the replay stream
    rp_content,       \* the content argument
    words,            \* content.split_whitespace() collected
    rp_i,             \* enumerate() index of the next word
    rp_out,           \* chunks yielded to the client so far
    \* ---- CacheService (services/cache.rs)
    now,              \* the clock the moka cache reads, in seconds
    ttl_seconds,      \* config.ttl_seconds
    max_size_mb,      \* config.max_size_mb
    inserted_at,      \* per key: the time the moka entry was last written
    hits,             \* CacheMetrics.hits
    misses,           \* CacheMetrics.misses
    stats_lock,       \* holders of the RwLock around the CacheMetrics
    ops_started,      \* number of get, set and clear calls made so far
    last_set,         \* history: per key, the latest set since the last clear or eviction,
                      \* with the value the key held when it ran
    returned_some,    \* history: completed gets, made after the last clear, that returned a value
    returned_none,    \* history: completed gets, made after the last clear, that returned None
    cleared,          \* history: clear has returned at least once
    \* ---- BatchProcessor (services/batch.rs) and chat_optimized (handlers/chat.rs)
    total_requests,        \* BatchMetrics.total_requests
    cached_responses,      \* BatchMetrics.cached_responses
    deduplicated_requests, \* BatchMetrics.deduplicated_requests
    batches_processed,     \* BatchMetrics.batches_processed
    total_batch_size,      \* BatchMetrics.total_batch_size
    batch_lock,            \* holders of the RwLock around the BatchMetrics
    calls_started,         \* number of process or chat calls made so far
    backend_calls,         \* history: per request, how often it was sent to the backend
    failed_calls,          \* history: number of process calls that returned an error
    \* ---- StatsState (handlers/stats.rs)
    conversation_cache     \* the second CacheService: its entries and its CacheMetrics

queueVars == <<queue, processing, queue_lock, processing_lock, next_uuid, pc,
               local, result, enq_order, cancelled_ids, dequeued_ids>>
liveVars == <<ls_pc, use_cache, cache_key, ls_cur, accumulated, ls_out,
              backend_sent, ls_received, lines_sent, cache_store,
              cache_enabled, set_log>>
replayVars == <<rp_pc, rp_content, words, rp_i, rp_out>>
cacheVars == <<now, ttl_seconds, max_size_mb, inserted_at, hits, misses, stats_lock,
               ops_started, last_set, returned_some, returned_none, cleared>>
batchVars == <<total_requests, cached_responses, deduplicated_requests,
               batches_processed, total_batch_size, batch_lock, calls_started,
               backend_calls>>
statsVars == <<failed_calls, conversation_cache>>
vars == <<queueVars, liveVars, replayVars, cacheVars, batchVars, statsVars>>

\* ------------------------------------------------------------------ bounds
MaxRequests == 3
MaxLines == 3
MaxLen == 4
MaxOps == 3
MaxTime == 2
MaxCalls == 3
MaxMessages == 2

\* ------------------------------------------------------- program constants
estimated_time_per_request_ms == 30000

\* ----------------------------------------------------------------- helpers
None == <<>>
Some(x) == <<x>>
IsSome(o) == Len(o) = 1
Unwrap(o) == o[1]

RECURSIVE Concat(_)
Concat(ss) == IF ss = <<>> THEN <<>> ELSE Head(ss) \o Concat(Tail(ss))

Range(s) == {s[i] : i \in 1..Len(s)}

Tasks == {"t1", "t2"}
RequestIds == 1..MaxRequests
ModelNames == {"deepseek-r1:8b"}
\* cache keys: values of CacheService::generate_key
Keys == {"k1", "k2"}

\* ---- requests and what the backend is sent
\* a String given as one fragment that is never split
Str(s) == <<s>>
Message(role, content) == [role |-> role, content |-> content]

\* request.messages of the requests made
ClientMessages == {<<Message(Str("user"), Str("hi"))>>}
\* state.system_prompt and the system_prompt a request may carry
default_system_prompt == Str("helpful")
SystemPrompts == {default_system_prompt, Str("pirate")}

\* the transcript OllamaClient::chat_completion sends (ollama.rs lines 33-44)
all_messages(system_prompt, messages) ==
    <<Message(Str("system"), system_prompt)>> \o messages
OllamaRequest(model, messages) == [model |-> model, messages |-> messages]
\* the request BatchProcessor::warm_model sends (batch.rs lines 112-119)
warm_request(model) ==
    OllamaRequest(model, all_messages(Str("You are a helpful assistant."),
                                      <<Message(Str("user"), Str("Hello"))>>))
BackendRequests ==
    {OllamaRequest(m, all_messages(p, ms)) :
        m \in ModelNames, p \in SystemPrompts, ms \in ClientMessages}
    \cup {warm_request(m) : m \in ModelNames}
NoBackendCalls == [r \in BackendRequests |-> 0]

\* CacheService::new (cache.rs lines 24-38) for the conversation cache: no handler
\* writes an entry to it, so its store is the function with the empty domain
NewCacheService == [store |-> <<>>, hits |-> 0, misses |-> 0]

\* ================================================================= queue.rs
QueuedRequest(id, model) == [id |-> id, model |-> model]

NoLocal == [id |-> 0, model |-> "", pos |-> None]
NoResult == [task |-> "", op |-> "none", arg |-> 0, val |-> None]

UnlockedRw == [writers |-> {}, readers |-> {}]

\* RwLock::write().await completes only when nobody holds the lock.
write_available_shared(l) == l.readers = {}
write_available(l) == l.writers = {} /\ l.readers = {}
\* RwLock::read().await completes only when no writer holds the lock.
read_available(l) == l.writers = {}

\* VecDeque::push_back
push_front(q, r) == <<r>> \o q
push_back(q, r) == Append(q, r)

\* VecDeque::pop_front: <<popped option, rest>>
pop_back(q) == IF q = <<>> THEN <<None, q>>
               ELSE <<Some(q[Len(q)]), SubSeq(q, 1, Len(q) - 1)>>
pop_front(q) == IF q = <<>> THEN <<None, q>> ELSE <<Some(Head(q)), Tail(q)>>

\* queue.iter().position(|r| r.id == request_id): 0-based index of the first match
RECURSIVE position_from(_, _, _)
position_from(q, request_id, i) ==
    IF i >= Len(q) THEN None
    ELSE IF q[i + 1].id = request_id THEN Some(i)
    ELSE position_from(q, request_id, i + 1)
position(q, request_id) == position_from(q, request_id, 0)

\* VecDeque::remove(pos): out of range removes nothing
remove_after(q, p) ==
    IF p + 1 < Len(q) THEN SubSeq(q, 1, p + 1) \o SubSeq(q, p + 3, Len(q)) ELSE q
remove(q, p) ==
    IF p < Len(q) THEN SubSeq(q, 1, p) \o SubSeq(q, p + 2, Len(q)) ELSE q

\* the closure of get_status (lines 66-78)
QueueStatus_wait_from_one(q, p, proc) ==
    [queue_position |-> p + 1,
     queue_length |-> Len(q),
     estimated_wait_time |-> (p + 1) * estimated_time_per_request_ms,
     is_processing |-> proc /\ p = 0]
QueueStatus(q, p, proc) ==
    [queue_position |-> p + 1,
     queue_length |-> Len(q),
     estimated_wait_time |-> p * estimated_time_per_request_ms,
     is_processing |-> proc /\ p = 0]

\* QueueService::new (lines 25-31)
QueueInit ==
    /\ queue = <<>>
    /\ processing = FALSE
    /\ queue_lock = UnlockedRw
    /\ processing_lock = UnlockedRw
    /\ next_uuid = 1
    /\ pc = [t \in Tasks |-> "idle"]
    /\ local = [t \in Tasks |-> NoLocal]
    /\ result = NoResult
    /\ enq_order = <<>>
    /\ cancelled_ids = {}
    /\ dequeued_ids = {}
    \* no stream is open
    /\ ls_pc = "unused"
    /\ use_cache = FALSE
    /\ cache_key = "k1"
    /\ ls_cur = None
    /\ accumulated = <<>>
    /\ ls_out = <<>>
    /\ backend_sent = <<>>
    /\ ls_received = <<>>
    /\ lines_sent = 0
    /\ cache_store = [k \in Keys |-> None]
    /\ cache_enabled = TRUE
    /\ set_log = <<>>
    /\ rp_content = <<>>
    /\ words = <<>>
    /\ rp_i = 0
    /\ rp_out = <<>>
    /\ rp_pc = "unused"
    \* the cache service is as constructed, the clock stands
    /\ now = 0
    /\ ttl_seconds = 1
    /\ max_size_mb = 10
    /\ inserted_at = [k \in Keys |-> 0]
    /\ hits = 0
    /\ misses = 0
    /\ stats_lock = UnlockedRw
    /\ ops_started = 0
    /\ last_set = [k \in Keys |-> None]
    /\ returned_some = 0
    /\ returned_none = 0
    /\ cleared = FALSE
    \* the processor is as constructed
    /\ total_requests = 0
    /\ cached_responses = 0
    /\ deduplicated_requests = 0
    /\ batches_processed = 0
    /\ total_batch_size = 0
    /\ batch_lock = UnlockedRw
    /\ calls_started = 0
    /\ backend_calls = NoBackendCalls
    /\ failed_calls = 0
    /\ conversation_cache = NewCacheService

Goto(t, label) == pc' = [pc EXCEPT ![t] = label]
\* the operation of task t returns val to its caller
Return(t, op, arg, val) ==
    /\ pc' = [pc EXCEPT ![t] = "idle"]
    /\ local' = [local EXCEPT ![t] = NoLocal]
    /\ result' = [task |-> t, op |-> op, arg |-> arg, val |-> val]

\* ---- enqueue (lines 34-57)
\* the id is generated and the request built before the lock is taken (lines 40-49)
EnqueueBegin(t) ==
    /\ pc[t] = "idle"
    /\ next_uuid <= MaxRequests
    /\ \E m \in ModelNames :
          local' = [local EXCEPT ![t] = [NoLocal EXCEPT !.id = next_uuid, !.model = m]]
    /\ next_uuid' = next_uuid + 1
    /\ Goto(t, "enqueue_lock")
    /\ result' = NoResult
    /\ UNCHANGED <<queue, processing, queue_lock, processing_lock,
                   enq_order, cancelled_ids, dequeued_ids>>
    /\ UNCHANGED <<liveVars, replayVars, cacheVars, batchVars, statsVars>>

\* self.queue.write().await; push_back; return id (lines 51-56)
EnqueuePush(t) ==
    /\ pc[t] = "enqueue_lock"
    /\ write_available(queue_lock)
    /\ queue' = push_back(queue, QueuedRequest(local[t].id, local[t].model))
    /\ enq_order' = Append(enq_order, local[t].id)
    /\ Return(t, "enqueue", 0, Some(local[t].id))
    /\ UNCHANGED <<processing, queue_lock, processing_lock, next_uuid,
                   cancelled_ids, dequeued_ids>>
    /\ UNCHANGED <<liveVars, replayVars, cacheVars, batchVars, statsVars>>

\* ---- get_status (lines 60-79)
\* self.queue.read().await (line 61)
StatusLockQueue(t) ==
    /\ pc[t] = "idle"
    /\ read_available(queue_lock)
    /\ \E id \in RequestIds : local' = [local EXCEPT ![t] = [NoLocal EXCEPT !.id = id]]
    /\ queue_lock' = [queue_lock EXCEPT !.readers = @ \cup {t}]
    /\ Goto(t, "status_lock_processing")
    /\ result' = NoResult
    /\ UNCHANGED <<queue, processing, processing_lock, next_uuid,
                   enq_order, cancelled_ids, dequeued_ids>>
    /\ UNCHANGED <<liveVars, replayVars, cacheVars, batchVars, statsVars>>

\* self.processing.read().await and the rest of the body (lines 62-78)
StatusCompute_raw_flag(t) ==
    /\ pc[t] = "status_lock_processing"
    /\ read_available(processing_lock)
    /\ LET pos == position(queue, local[t].id)
           status == IF IsSome(pos)
                     THEN Some([QueueStatus(queue, Unwrap(pos), processing)
                                   EXCEPT !.is_processing = processing])
                     ELSE None
       IN  Return(t, "get_status", local[t].id, status)
    /\ queue_lock' = [queue_lock EXCEPT !.readers = @ \ {t}]
    /\ UNCHANGED <<queue, processing, processing_lock, next_uuid,
                   enq_order, cancelled_ids, dequeued_ids>>
    /\ UNCHANGED <<liveVars, replayVars, cacheVars, batchVars, statsVars>>
StatusCompute(t) ==
    /\ pc[t] = "status_lock_processing"
    /\ read_available(processing_lock)
    /\ LET pos == position(queue, local[t].id)
           status == IF IsSome(pos)
                     THEN Some(QueueStatus(queue, Unwrap(pos), processing))
                     ELSE None
       IN  Return(t, "get_status", local[t].id, status)
    /\ queue_lock' = [queue_lock EXCEPT !.readers = @ \ {t}]
    /\ UNCHANGED <<queue, processing, processing_lock, next_uuid,
                   enq_order, cancelled_ids, dequeued_ids>>
    /\ UNCHANGED <<liveVars, replayVars, cacheVars, batchVars, statsVars>>

\* ---- get_queue_info (lines 82-86)
InfoLockQueue(t) ==
    /\ pc[t] = "idle"
    /\ read_available(queue_lock)
    /\ queue_lock' = [queue_lock EXCEPT !.readers = @ \cup {t}]
    /\ Goto(t, "info_lock_processing")
    /\ result' = NoResult
    /\ UNCHANGED <<queue, processing, processing_lock, next_uuid, local,
                   enq_order, cancelled_ids, dequeued_ids>>
    /\ UNCHANGED <<liveVars, replayVars, cacheVars, batchVars, statsVars>>

InfoRead(t) ==
    /\ pc[t] = "info_lock_processing"
    /\ read_available(processing_lock)
    /\ queue_lock' = [queue_lock EXCEPT !.readers = @ \ {t}]
    /\ Return(t, "get_queue_info", 0, Some(<<Len(queue), processing>>))
    /\ UNCHANGED <<queue, processing, processing_lock, next_uuid,
                   enq_order, cancelled_ids, dequeued_ids>>
    /\ UNCHANGED <<liveVars, replayVars, cacheVars, batchVars, statsVars>>

\* ---- dequeue (lines 89-98)
DequeueBegin(t) ==
    /\ pc[t] = "idle"
    /\ Goto(t, "dequeue_lock")
    /\ result' = NoResult
    /\ UNCHANGED <<queue, processing, queue_lock, processing_lock, next_uuid, local,
                   enq_order, cancelled_ids, dequeued_ids>>
    /\ UNCHANGED <<liveVars, replayVars, cacheVars, batchVars, statsVars>>

\* self.queue.write().await; pop_front; return request (lines 90-97)
DequeuePop_keeps_request(t) ==
    /\ pc[t] = "dequeue_lock"
    /\ write_available(queue_lock)
    /\ LET popped == pop_front(queue)
           request == popped[1]
       IN  /\ queue' = queue
           /\ dequeued_ids' = IF IsSome(request)
                              THEN dequeued_ids \cup {Unwrap(request).id}
                              ELSE dequeued_ids
           /\ Return(t, "dequeue", 0, request)
    /\ UNCHANGED <<processing, queue_lock, processing_lock, next_uuid,
                   enq_order, cancelled_ids>>
    /\ UNCHANGED <<liveVars, replayVars, cacheVars, batchVars, statsVars>>
DequeuePop(t) ==
    /\ pc[t] = "dequeue_lock"
    /\ write_available(queue_lock)
    /\ LET popped == pop_front(queue)
           request == popped[1]
       IN  /\ queue' = popped[2]
           /\ dequeued_ids' = IF IsSome(request)
                              THEN dequeued_ids \cup {Unwrap(request).id}
                              ELSE dequeued_ids
           /\ Return(t, "dequeue", 0, request)
    /\ UNCHANGED <<processing, queue_lock, processing_lock, next_uuid,
                   enq_order, cancelled_ids>>
    /\ UNCHANGED <<liveVars, replayVars, cacheVars, batchVars, statsVars>>

\* ---- set_processing (lines 101-104)
SetProcessing(t) ==
    /\ pc[t] = "idle"
    /\ write_available(processing_lock)
    /\ \E is_processing \in BOOLEAN :
          /\ processing' = is_processing
          /\ Return(t, "set_processing", 0, Some(is_processing))
    /\ UNCHANGED <<queue, queue_lock, processing_lock, next_uuid,
                   enq_order, cancelled_ids, dequeued_ids>>
    /\ UNCHANGED <<liveVars, replayVars, cacheVars, batchVars, statsVars>>

\* ---- cancel (lines 113-123)
CancelBegin(t) ==
    /\ pc[t] = "idle"
    /\ \E id \in RequestIds : local' = [local EXCEPT ![t] = [NoLocal EXCEPT !.id = id]]
    /\ Goto(t, "cancel_lock")
    /\ result' = NoResult
    /\ UNCHANGED <<queue, processing, queue_lock, processing_lock, next_uuid,
                   enq_order, cancelled_ids, dequeued_ids>>
    /\ UNCHANGED <<liveVars, replayVars, cacheVars, batchVars, statsVars>>

\* self.queue.write().await; queue.iter().position(...) (lines 114-116, 122)
CancelFind(t) ==
    /\ pc[t] = "cancel_lock"
    /\ write_available(queue_lock)
    /\ LET pos == position(queue, local[t].id)
       IN  IF IsSome(pos)
           THEN /\ local' = [local EXCEPT ![t].pos = pos]
                /\ queue_lock' = [queue_lock EXCEPT !.writers = @ \cup {t}]
                /\ Goto(t, "cancel_remove")
                /\ result' = NoResult
           ELSE /\ Return(t, "cancel", local[t].id, Some(FALSE))
                /\ UNCHANGED queue_lock
    /\ UNCHANGED <<queue, processing, processing_lock, next_uuid,
                   enq_order, cancelled_ids, dequeued_ids>>
    /\ UNCHANGED <<liveVars, replayVars, cacheVars, batchVars, statsVars>>

\* queue.remove(pos); return true (lines 117-119)
CancelRemove(t) ==
    /\ pc[t] = "cancel_remove"
    /\ queue' = remove(queue, Unwrap(local[t].pos))
    /\ cancelled_ids' = cancelled_ids \cup {local[t].id}
    /\ queue_lock' = [queue_lock EXCEPT !.writers = @ \ {t}]
    /\ Return(t, "cancel", local[t].id, Some(TRUE))
    /\ UNCHANGED <<processing, processing_lock, next_uuid, enq_order, dequeued_ids>>
    /\ UNCHANGED <<liveVars, replayVars, cacheVars, batchVars, statsVars>>

QueueNext ==
    \E t \in Tasks :
          \/ EnqueueBegin(t)
          \/ EnqueuePush(t)
          \/ StatusLockQueue(t)
          \/ StatusCompute(t)
          \/ InfoLockQueue(t)
          \/ InfoRead(t)
          \/ DequeueBegin(t)
          \/ DequeuePop(t)
          \/ SetProcessing(t)
          \/ CancelBegin(t)
          \/ CancelFind(t)
          \/ CancelRemove(t)

\* ============================================================ services/cache.rs
\* CacheService::set (lines 77-84) on the moka store
cache_set_ignores_enabled(store, key, value) == [store EXCEPT ![key] = Some(value)]
cache_set(store, key, value) ==
    IF ~cache_enabled THEN store ELSE [store EXCEPT ![key] = Some(value)]

\* ============================================== ollama.rs: the backend stream
Contents == {<<"a">>, <<"b">>}
ChatMessage(content) == [role |-> "assistant", content |-> content]
\* OllamaResponse { message: Option<ChatMessage>, done: bool }
OllamaResponses ==
    [message : {None} \cup {Some(ChatMessage(c)) : c \in Contents}, done : BOOLEAN]

\* one line of a transport chunk: a JSON event, text that does not parse, or blank
Lines ==
    {[kind |-> "json", response |-> Some(r)] : r \in OllamaResponses}
        \cup {[kind |-> "garbage", response |-> None],
              [kind |-> "blank", response |-> None]}
LineSeqs(max) == UNION {[1..n -> Lines] : n \in 0..max}
\* one item of response.bytes_stream(), of at most max lines
TransportItems(max) ==
    {[kind |-> "bytes", lines |-> ls] : ls \in LineSeqs(max)}
        \cup {[kind |-> "io_error", lines |-> <<>>],
              [kind |-> "bad_utf8", lines |-> <<>>]}

Ok(r) == [ok |-> TRUE, response |-> Some(r), error |-> ""]
Err(e) == [ok |-> FALSE, response |-> None, error |-> e]

\* the for loop over text.lines() (lines 118-132)
RECURSIVE parse_lines(_, _)
parse_lines(lines, i) ==
    IF i > Len(lines) THEN Err("No valid response in chunk")
    ELSE IF lines[i].kind = "blank" THEN parse_lines(lines, i + 1)
    ELSE IF lines[i].kind = "json" THEN Ok(Unwrap(lines[i].response))
    ELSE parse_lines(lines, i + 1)

\* the closure mapped over bytes_stream() (lines 110-134)
map_chunk(item) ==
    IF item.kind = "io_error" THEN Err("Stream error")
    ELSE IF item.kind = "bad_utf8" THEN Err("UTF-8 error")
    ELSE parse_lines(item.lines, 1)

\* the events a transport item carries, in wire order
RECURSIVE events_of(_, _)
events_of(lines, i) ==
    IF i > Len(lines) THEN <<>>
    ELSE IF lines[i].kind = "json"
         THEN <<Unwrap(lines[i].response)>> \o events_of(lines, i + 1)
         ELSE events_of(lines, i + 1)

\* ================================================ chat.rs: the stream relay
StreamChunk(content, done, request_id, cached, error) ==
    [content |-> content, done |-> done, request_id |-> request_id,
     cached |-> cached, error |-> error]

\* stream_ollama_response is called by chat_optimized (lines 57-68, 146-154)
LiveInit ==
    /\ ls_pc = "poll"
    /\ use_cache \in BOOLEAN
    /\ cache_key \in Keys
    /\ ls_cur = None
    /\ accumulated = <<>>
    /\ ls_out = <<>>
    /\ backend_sent = <<>>
    /\ ls_received = <<>>
    /\ lines_sent = 0
    /\ cache_store = [k \in Keys |-> None]
    /\ cache_enabled \in BOOLEAN
    /\ set_log = <<>>
    \* the queue is as constructed, no replay is open
    /\ queue = <<>>
    /\ processing = FALSE
    /\ queue_lock = UnlockedRw
    /\ processing_lock = UnlockedRw
    /\ next_uuid = 1
    /\ pc = [t \in Tasks |-> "idle"]
    /\ local = [t \in Tasks |-> NoLocal]
    /\ result = NoResult
    /\ enq_order = <<>>
    /\ cancelled_ids = {}
    /\ dequeued_ids = {}
    /\ rp_content = <<>>
    /\ words = <<>>
    /\ rp_i = 0
    /\ rp_out = <<>>
    /\ rp_pc = "unused"
    \* the cache service is as constructed, the clock stands
    /\ now = 0
    /\ ttl_seconds = 1
    /\ max_size_mb = 10
    /\ inserted_at = [k \in Keys |-> 0]
    /\ hits = 0
    /\ misses = 0
    /\ stats_lock = UnlockedRw
    /\ ops_started = 0
    /\ last_set = [k \in Keys |-> None]
    /\ returned_some = 0
    /\ returned_none = 0
    /\ cleared = FALSE
    \* the processor is as constructed
    /\ total_requests = 0
    /\ cached_responses = 0
    /\ deduplicated_requests = 0
    /\ batches_processed = 0
    /\ total_batch_size = 0
    /\ batch_lock = UnlockedRw
    /\ calls_started = 0
    /\ backend_calls = NoBackendCalls
    /\ failed_calls = 0
    /\ conversation_cache = NewCacheService


\* the Err(e) arm (lines 198-211)
on_stream_error_caching(e) ==
    /\ ls_out' = Append(ls_out, StreamChunk(None, TRUE, None, None, Some(e)))
    /\ ls_pc' = "finished"
    /\ cache_store' = IF use_cache THEN cache_set(cache_store, cache_key, accumulated)
                      ELSE cache_store
    /\ set_log' = IF use_cache THEN Append(set_log, <<cache_key, accumulated>>)
                  ELSE set_log
    /\ UNCHANGED <<ls_cur, accumulated>>
on_stream_error(e) ==
    /\ ls_out' = Append(ls_out, StreamChunk(None, TRUE, None, None, Some(e)))
    /\ ls_pc' = "finished"
    /\ UNCHANGED <<ls_cur, accumulated, cache_store, set_log>>

\* ollama_stream.next().await yields None: the while let loop ends (line 157)
RelayStreamEnds ==
    /\ ls_pc = "poll"
    /\ ls_pc' = "ended"
    /\ UNCHANGED <<use_cache, cache_key, ls_cur, accumulated, ls_out, backend_sent,
                   ls_received, lines_sent, cache_store, cache_enabled, set_log>>
    /\ UNCHANGED <<queueVars, replayVars, cacheVars, batchVars, statsVars>>

\* ollama_stream.next().await yields an item (lines 157-159, 198)
RelayNext ==
    /\ ls_pc = "poll"
    /\ \E item \in TransportItems(MaxLines - lines_sent) :
          LET item_result == map_chunk(item)
          IN  /\ backend_sent' = backend_sent \o events_of(item.lines, 1)
              /\ ls_received' = Append(ls_received, item_result)
              /\ lines_sent' = lines_sent + Len(item.lines)
              /\ IF item_result.ok
                 THEN /\ ls_cur' = item_result.response
                      /\ ls_pc' = "forward"
                      /\ UNCHANGED <<accumulated, ls_out, cache_store, set_log>>
                 ELSE on_stream_error(item_result.error)
    /\ UNCHANGED <<use_cache, cache_key, cache_enabled>>
    /\ UNCHANGED <<queueVars, replayVars, cacheVars, batchVars, statsVars>>

\* if let Some(message) = &ollama_response.message (lines 160-175)
RelayForward ==
    /\ ls_pc = "forward"
    /\ LET ollama_response == Unwrap(ls_cur)
       IN  IF IsSome(ollama_response.message)
           THEN LET message == Unwrap(ollama_response.message)
                IN  /\ accumulated' = accumulated \o message.content
                    /\ ls_out' = Append(ls_out,
                          StreamChunk(Some(message.content), FALSE, None, Some(FALSE), None))
           ELSE UNCHANGED <<accumulated, ls_out>>
    /\ ls_pc' = "check_done"
    /\ UNCHANGED <<use_cache, cache_key, ls_cur, backend_sent, ls_received,
                   lines_sent, cache_store, cache_enabled, set_log>>
    /\ UNCHANGED <<queueVars, replayVars, cacheVars, batchVars, statsVars>>

\* if ollama_response.done { if use_cache { cache.set(...) } (lines 177-183)
RelayCheckDone_ignores_use_cache ==
    /\ ls_pc = "check_done"
    /\ IF Unwrap(ls_cur).done
       THEN /\ cache_store' = cache_set(cache_store, cache_key, accumulated)
            /\ set_log' = Append(set_log, <<cache_key, accumulated>>)
            /\ ls_pc' = "emit_done"
       ELSE /\ ls_pc' = "poll"
            /\ UNCHANGED <<cache_store, set_log>>
    /\ UNCHANGED <<use_cache, cache_key, ls_cur, accumulated, ls_out, backend_sent,
                   ls_received, lines_sent, cache_enabled>>
    /\ UNCHANGED <<queueVars, replayVars, cacheVars, batchVars, statsVars>>
RelayCheckDone ==
    /\ ls_pc = "check_done"
    /\ IF Unwrap(ls_cur).done
       THEN /\ IF use_cache
               THEN /\ cache_store' = cache_set(cache_store, cache_key, accumulated)
                    /\ set_log' = Append(set_log, <<cache_key, accumulated>>)
               ELSE UNCHANGED <<cache_store, set_log>>
            /\ ls_pc' = "emit_done"
       ELSE /\ ls_pc' = "poll"
            /\ UNCHANGED <<cache_store, set_log>>
    /\ UNCHANGED <<use_cache, cache_key, ls_cur, accumulated, ls_out, backend_sent,
                   ls_received, lines_sent, cache_enabled>>
    /\ UNCHANGED <<queueVars, replayVars, cacheVars, batchVars, statsVars>>

\* the terminal chunk and break (lines 185-195)
RelayEmitDone ==
    /\ ls_pc = "emit_done"
    /\ ls_out' = Append(ls_out, StreamChunk(None, TRUE, None, Some(FALSE), None))
    /\ ls_pc' = "finished"
    /\ UNCHANGED <<use_cache, cache_key, ls_cur, accumulated, backend_sent,
                   ls_received, lines_sent, cache_store, cache_enabled, set_log>>
    /\ UNCHANGED <<queueVars, replayVars, cacheVars, batchVars, statsVars>>

LiveNext ==
    \/ RelayStreamEnds
    \/ RelayNext
    \/ RelayForward
    \/ RelayCheckDone
    \/ RelayEmitDone

\* ------------------------------------------------- stream_cached_response
Whitespace == {" ", "\n"}
Chars == {"a", "b"} \cup Whitespace
Texts == UNION {[1..n -> Chars] : n \in 0..MaxLen}

\* str::split_whitespace collected into a Vec (line 111)
RECURSIVE split_whitespace_from(_, _, _, _)
split_whitespace_from(s, i, cur, acc) ==
    IF i > Len(s) THEN (IF cur = <<>> THEN acc ELSE Append(acc, cur))
    ELSE IF s[i] \in Whitespace
         THEN split_whitespace_from(s, i + 1, <<>>,
                                    IF cur = <<>> THEN acc ELSE Append(acc, cur))
         ELSE split_whitespace_from(s, i + 1, Append(cur, s[i]), acc)
split_whitespace(s) == split_whitespace_from(s, 1, <<>>, <<>>)

\* the closure over (i, word) (lines 115-130); total - 1 is usize arithmetic and
\* wraps to usize::MAX for total = 0, where every index is below it
word_chunk_done_on_last(i, word, total) ==
    StreamChunk(Some(IF total = 0 \/ i < total - 1 THEN word \o <<" ">> ELSE word),
                ~(total = 0 \/ i < total - 1), None, Some(TRUE), None)
word_chunk_space_always(i, word, total) ==
    StreamChunk(Some(IF total = 0 \/ i < total THEN word \o <<" ">> ELSE word),
                FALSE, None, Some(TRUE), None)
word_chunk(i, word, total) ==
    StreamChunk(Some(IF total = 0 \/ i < total - 1 THEN word \o <<" ">> ELSE word),
                FALSE, None, Some(TRUE), None)

\* stream_cached_response is called with the cached text (lines 107-113)
ReplayInit ==
    /\ rp_content \in Texts
    /\ words = split_whitespace(rp_content)
    /\ rp_i = 0
    /\ rp_out = <<>>
    /\ rp_pc = "words"
    \* the queue is as constructed, no live relay is open
    /\ queue = <<>>
    /\ processing = FALSE
    /\ queue_lock = UnlockedRw
    /\ processing_lock = UnlockedRw
    /\ next_uuid = 1
    /\ pc = [t \in Tasks |-> "idle"]
    /\ local = [t \in Tasks |-> NoLocal]
    /\ result = NoResult
    /\ enq_order = <<>>
    /\ cancelled_ids = {}
    /\ dequeued_ids = {}
    /\ ls_pc = "unused"
    /\ use_cache = FALSE
    /\ cache_key = "k1"
    /\ ls_cur = None
    /\ accumulated = <<>>
    /\ ls_out = <<>>
    /\ backend_sent = <<>>
    /\ ls_received = <<>>
    /\ lines_sent = 0
    /\ cache_store = [k \in Keys |-> None]
    /\ cache_enabled = TRUE
    /\ set_log = <<>>
    \* the cache service is as constructed, the clock stands
    /\ now = 0
    /\ ttl_seconds = 1
    /\ max_size_mb = 10
    /\ inserted_at = [k \in Keys |-> 0]
    /\ hits = 0
    /\ misses = 0
    /\ stats_lock = UnlockedRw
    /\ ops_started = 0
    /\ last_set = [k \in Keys |-> None]
    /\ returned_some = 0
    /\ returned_none = 0
    /\ cleared = FALSE
    \* the processor is as constructed
    /\ total_requests = 0
    /\ cached_responses = 0
    /\ deduplicated_requests = 0
    /\ batches_processed = 0
    /\ total_batch_size = 0
    /\ batch_lock = UnlockedRw
    /\ calls_started = 0
    /\ backend_calls = NoBackendCalls
    /\ failed_calls = 0
    /\ conversation_cache = NewCacheService

\* the mapped iterator yields the next word (lines 115-130)
ReplayNextWord ==
    /\ rp_pc = "words"
    /\ rp_i < Len(words)
    /\ rp_out' = Append(rp_out, word_chunk(rp_i, words[rp_i + 1], Len(words)))
    /\ rp_i' = rp_i + 1
    /\ UNCHANGED <<rp_pc, rp_content, words>>
    /\ UNCHANGED <<queueVars, liveVars, cacheVars, batchVars, statsVars>>

\* the chained stream::once yields the terminal chunk (lines 131-142)
ReplayEmitDone ==
    /\ rp_pc = "words"
    /\ rp_i = Len(words)
    /\ rp_out' = Append(rp_out, StreamChunk(None, TRUE, None, Some(TRUE), None))
    /\ rp_pc' = "finished"
    /\ UNCHANGED <<rp_content, words, rp_i>>
    /\ UNCHANGED <<queueVars, liveVars, cacheVars, batchVars, statsVars>>

ReplayNext ==
    \/ ReplayNextWord
    \/ ReplayEmitDone

\* ================================================ services/cache.rs: the service
\* a quotient of two u64 taken in f64, kept as the exact fraction <<numerator, denominator>>
Ratio(n, d) == <<n, d>>
RatioEq(a, b) == a[1] * b[2] = b[1] * a[2]
RatioSum(a, b) == <<a[1] * b[2] + b[1] * a[2], a[2] * b[2]>>

\* the locals of a running cache operation
CacheLocal(key, value) == [key |-> key, value |-> value, stale |-> FALSE, tmp |-> 0]
InGet(t) == pc[t] \in {"get_stats_lock", "get_count"}

\* the configurations run: ttl_seconds and max_size_mb of CacheConfig; a cache of
\* max_size_mb = 0 has capacity for no entry
CacheConfigs == {[ttl_seconds |-> 2, max_size_mb |-> 10],
                 [ttl_seconds |-> 1, max_size_mb |-> 0]}

\* Cache::builder().max_capacity(config.max_size_mb * 1024 * 1024) (line 25)
max_capacity(mb) == mb * 1024 * 1024
\* Cache::entry_count
entry_count(store) == Cardinality({k \in DOMAIN store : IsSome(store[k])})

\* Cache::get under time_to_live(ttl): an entry written ttl_seconds or more ago is expired
moka_get_no_expiry(store, key) == store[key]
moka_get(store, key) ==
    IF IsSome(store[key]) /\ now - inserted_at[key] < ttl_seconds THEN store[key] ELSE None

\* Cache::insert restarts the time to live of the entry it writes
cache_stamp_keeps_first(store, stamps, key) ==
    IF ~cache_enabled \/ IsSome(store[key]) THEN stamps ELSE [stamps EXCEPT ![key] = now]
cache_stamp(store, stamps, key) ==
    IF ~cache_enabled THEN stamps ELSE [stamps EXCEPT ![key] = now]

\* Cache::invalidate_all
invalidate_all(store) == [k \in DOMAIN store |-> None]

\* the rates of CacheService::stats (lines 106-116)
CacheStats_miss_rate_from_hits(h, m) ==
    [hit_rate |-> IF h + m > 0 THEN Ratio(h, h + m) ELSE Ratio(0, 1),
     miss_rate |-> IF h + m > 0 THEN Ratio(h, h + m) ELSE Ratio(0, 1)]
CacheStats(h, m) ==
    [hit_rate |-> IF h + m > 0 THEN Ratio(h, h + m) ELSE Ratio(0, 1),
     miss_rate |-> IF h + m > 0 THEN Ratio(m, h + m) ELSE Ratio(0, 1)]

\* CacheService::new (lines 24-38) with a configuration, the clock at its origin
CacheInit ==
    /\ cache_enabled \in BOOLEAN
    /\ \E config \in CacheConfigs :
          /\ ttl_seconds = config.ttl_seconds
          /\ max_size_mb = config.max_size_mb
    /\ now = 0
    /\ cache_store = [k \in Keys |-> None]
    /\ inserted_at = [k \in Keys |-> 0]
    /\ hits = 0
    /\ misses = 0
    /\ stats_lock = UnlockedRw
    /\ ops_started = 0
    /\ last_set = [k \in Keys |-> None]
    /\ returned_some = 0
    /\ returned_none = 0
    /\ cleared = FALSE
    \* the processor is as constructed
    /\ total_requests = 0
    /\ cached_responses = 0
    /\ deduplicated_requests = 0
    /\ batches_processed = 0
    /\ total_batch_size = 0
    /\ batch_lock = UnlockedRw
    /\ calls_started = 0
    /\ backend_calls = NoBackendCalls
    /\ failed_calls = 0
    /\ conversation_cache = NewCacheService
    /\ pc = [t \in Tasks |-> "idle"]
    /\ local = [t \in Tasks |-> NoLocal]
    /\ result = NoResult
    \* the queue is as constructed, no stream is open
    /\ queue = <<>>
    /\ processing = FALSE
    /\ queue_lock = UnlockedRw
    /\ processing_lock = UnlockedRw
    /\ next_uuid = 1
    /\ enq_order = <<>>
    /\ cancelled_ids = {}
    /\ dequeued_ids = {}
    /\ ls_pc = "unused"
    /\ use_cache = FALSE
    /\ cache_key = "k1"
    /\ ls_cur = None
    /\ accumulated = <<>>
    /\ ls_out = <<>>
    /\ backend_sent = <<>>
    /\ ls_received = <<>>
    /\ lines_sent = 0
    /\ set_log = <<>>
    /\ rp_content = <<>>
    /\ words = <<>>
    /\ rp_i = 0
    /\ rp_out = <<>>
    /\ rp_pc = "unused"

CacheFrame ==
    UNCHANGED <<queue, processing, queue_lock, processing_lock, next_uuid,
                enq_order, cancelled_ids, dequeued_ids,
                ls_pc, use_cache, cache_key, ls_cur, accumulated, ls_out, backend_sent,
                ls_received, lines_sent, cache_enabled, set_log, replayVars,
                ttl_seconds, max_size_mb, batchVars, statsVars>>

\* ---- get (lines 55-74)
\* if !self.config.enabled { return None }; self.cache.get(key).await (lines 56-60)
CacheGetLookup(t) ==
    /\ pc[t] = "idle"
    /\ ops_started < MaxOps
    /\ ops_started' = ops_started + 1
    /\ \E key \in Keys :
          IF ~cache_enabled
          THEN /\ Return(t, "get", key, None)
               /\ returned_none' = returned_none + 1
          ELSE /\ local' = [local EXCEPT ![t] = CacheLocal(key, moka_get(cache_store, key))]
               /\ Goto(t, "get_stats_lock")
               /\ result' = NoResult
               /\ UNCHANGED returned_none
    /\ UNCHANGED <<now, cache_store, inserted_at, hits, misses, stats_lock, last_set,
                   returned_some, cleared>>
    /\ CacheFrame

\* self.stats.write().await and the read half of += 1 (lines 63-64, 68-69)
CacheGetLock_unlocked(t) ==
    /\ pc[t] = "get_stats_lock"
    /\ local' = [local EXCEPT ![t].tmp = IF IsSome(local[t].value) THEN hits ELSE misses]
    /\ Goto(t, "get_count")
    /\ result' = NoResult
    /\ UNCHANGED <<now, cache_store, inserted_at, hits, misses, stats_lock, ops_started,
                   last_set, returned_some, returned_none, cleared>>
    /\ CacheFrame
CacheGetLock(t) ==
    /\ pc[t] = "get_stats_lock"
    /\ write_available(stats_lock)
    /\ stats_lock' = [stats_lock EXCEPT !.writers = @ \cup {t}]
    /\ local' = [local EXCEPT ![t].tmp = IF IsSome(local[t].value) THEN hits ELSE misses]
    /\ Goto(t, "get_count")
    /\ result' = NoResult
    /\ UNCHANGED <<now, cache_store, inserted_at, hits, misses, ops_started,
                   last_set, returned_some, returned_none, cleared>>
    /\ CacheFrame

\* the write half of += 1, the guard is dropped, the result is returned (lines 64-72)
CacheGetCount(t) ==
    /\ pc[t] = "get_count"
    /\ IF IsSome(local[t].value)
       THEN /\ hits' = local[t].tmp + 1
            /\ returned_some' = IF local[t].stale THEN returned_some ELSE returned_some + 1
            /\ UNCHANGED <<misses, returned_none>>
       ELSE /\ misses' = local[t].tmp + 1
            /\ returned_none' = IF local[t].stale THEN returned_none ELSE returned_none + 1
            /\ UNCHANGED <<hits, returned_some>>
    /\ stats_lock' = [stats_lock EXCEPT !.writers = @ \ {t}]
    /\ Return(t, "get", local[t].key, local[t].value)
    /\ UNCHANGED <<now, cache_store, inserted_at, ops_started, last_set, cleared>>
    /\ CacheFrame

\* ---- set (lines 77-84)
CacheSet(t) ==
    /\ pc[t] = "idle"
    /\ ops_started < MaxOps
    /\ ops_started' = ops_started + 1
    /\ \E key \in Keys, value \in Contents :
          /\ cache_store' = cache_set(cache_store, key, value)
          /\ inserted_at' = cache_stamp(cache_store, inserted_at, key)
          /\ last_set' = [last_set EXCEPT ![key] =
                             Some([value |-> value, at |-> now,
                                   prev |-> IF cache_enabled THEN moka_get(cache_store, key)
                                            ELSE None])]
          /\ Return(t, "set", key, Some(value))
    /\ UNCHANGED <<now, hits, misses, stats_lock,
                   returned_some, returned_none, cleared>>
    /\ CacheFrame

\* ---- contains (lines 87-92)
CacheContains(t) ==
    /\ pc[t] = "idle"
    /\ \E key \in Keys :
          Return(t, "contains", key,
                 Some(IF ~cache_enabled THEN FALSE ELSE IsSome(moka_get(cache_store, key))))
    /\ UNCHANGED <<now, cache_store, inserted_at, hits, misses, stats_lock, ops_started,
                   last_set, returned_some, returned_none, cleared>>
    /\ CacheFrame

\* ---- clear (lines 95-101)
\* self.cache.invalidate_all() (line 96)
CacheClearInvalidate(t) ==
    /\ pc[t] = "idle"
    /\ ops_started < MaxOps
    /\ ops_started' = ops_started + 1
    /\ cache_store' = invalidate_all(cache_store)
    /\ inserted_at' = [k \in Keys |-> 0]
    /\ last_set' = [k \in Keys |-> None]
    /\ Goto(t, "clear_stats_lock")
    /\ result' = NoResult
    /\ UNCHANGED <<now, hits, misses, stats_lock, local,
                   returned_some, returned_none, cleared>>
    /\ CacheFrame

\* self.stats.write().await; hits = 0; misses = 0; return (lines 97-100)
CacheClearReset(t) ==
    /\ pc[t] = "clear_stats_lock"
    /\ write_available(stats_lock)
    /\ hits' = 0
    /\ misses' = 0
    /\ pc' = [pc EXCEPT ![t] = "idle"]
    \* the gets still running were made before this clear returned
    /\ local' = [u \in Tasks |-> IF InGet(u) THEN [local[u] EXCEPT !.stale = TRUE]
                                 ELSE IF u = t THEN NoLocal ELSE local[u]]
    /\ result' = [task |-> t, op |-> "clear", arg |-> "", val |-> None]
    /\ returned_some' = 0
    /\ returned_none' = 0
    /\ cleared' = TRUE
    /\ UNCHANGED <<now, cache_store, inserted_at, stats_lock, ops_started, last_set>>
    /\ CacheFrame

\* ---- stats (lines 104-134): the rates, read under self.stats.read().await
CacheStatsRead(t) ==
    /\ pc[t] = "idle"
    /\ read_available(stats_lock)
    /\ Return(t, "stats", "", Some(CacheStats(hits, misses)))
    /\ UNCHANGED <<now, cache_store, inserted_at, hits, misses, stats_lock, ops_started,
                   last_set, returned_some, returned_none, cleared>>
    /\ CacheFrame

\* ---- the environment of the cache
\* a second passes
Tick ==
    /\ now < MaxTime
    /\ now' = now + 1
    /\ result' = NoResult
    /\ UNCHANGED <<pc, local, cache_store, inserted_at, hits, misses, stats_lock,
                   ops_started, last_set, returned_some, returned_none, cleared>>
    /\ CacheFrame

\* moka evicts an entry while the cache holds more entries than max_capacity
CacheEvict ==
    /\ entry_count(cache_store) > max_capacity(max_size_mb)
    /\ \E key \in Keys :
          /\ IsSome(cache_store[key])
          /\ cache_store' = [cache_store EXCEPT ![key] = None]
          /\ inserted_at' = [inserted_at EXCEPT ![key] = 0]
          /\ last_set' = [last_set EXCEPT ![key] = None]
    /\ result' = NoResult
    /\ UNCHANGED <<pc, local, now, hits, misses, stats_lock,
                   ops_started, returned_some, returned_none, cleared>>
    /\ CacheFrame

CacheNext ==
    \/ \E t \in Tasks :
          \/ CacheGetLookup(t)
          \/ CacheGetLock(t)
          \/ CacheGetCount(t)
          \/ CacheSet(t)
          \/ CacheContains(t)
          \/ CacheClearInvalidate(t)
          \/ CacheClearReset(t)
          \/ CacheStatsRead(t)
    \/ Tick
    \/ CacheEvict

\* ===================================== requests, fingerprints and the backend call
\* [String].join(sep)
RECURSIVE join(_, _)
join(parts, sep) ==
    IF parts = <<>> THEN <<>>
    ELSE IF Len(parts) = 1 THEN parts[1]
    ELSE parts[1] \o sep \o join(Tail(parts), sep)

\* the hex digest of SHA-256, taken to be injective
Sha256(input) == <<"sha256", input>>

\* CacheService::generate_key (lines 41-52)
generate_key(messages, model) ==
    LET content == join([i \in 1..Len(messages) |->
                            messages[i].role \o <<":">> \o messages[i].content],
                        <<"|", "|">>)
    IN  Sha256(Str(model) \o <<":", ":">> \o content)

RequestKeys == {generate_key(ms, m) : ms \in ClientMessages, m \in ModelNames}

\* the request is sent once more
send(calls, request) == [calls EXCEPT ![request] = @ + 1]

\* what OllamaClient::chat_completion returns (ollama.rs lines 47-71)
BackendOutcomes == {Ok(text) : text \in Contents} \cup {Err("ollama")}

\* CacheService::get run to its end in one step: the value and the counters
cache_get_misses(key) == None
cache_get(key) == IF ~cache_enabled THEN None ELSE moka_get(cache_store, key)
count_get(value) ==
    IF ~cache_enabled THEN UNCHANGED <<hits, misses>>
    ELSE IF IsSome(value) THEN hits' = hits + 1 /\ UNCHANGED misses
    ELSE misses' = misses + 1 /\ UNCHANGED hits

\* ========================================================= services/batch.rs
\* the arguments and locals of a process or chat call; effects is the history
\* of what the call has done so far
CallLocal(messages, model, system_prompt, stream, with_cache) ==
    [messages |-> messages, model |-> model, system_prompt |-> system_prompt,
     stream |-> stream, use_cache |-> with_cache,
     cache_key |-> generate_key(messages, model),
     cached |-> None, response |-> None, effects |-> {}]
Did(t, effect) == local' = [local EXCEPT ![t].effects = @ \cup {effect}]

CallFrame ==
    UNCHANGED <<queue, processing, queue_lock, processing_lock, next_uuid,
                enq_order, cancelled_ids, dequeued_ids,
                ls_pc, use_cache, cache_key, ls_cur, accumulated, ls_out, backend_sent,
                ls_received, lines_sent, cache_enabled, replayVars,
                now, ttl_seconds, max_size_mb, stats_lock, ops_started, last_set,
                returned_some, returned_none, cleared, deduplicated_requests,
                conversation_cache>>

\* ---- process (lines 38-74)
\* self.stats.write().await; total_requests += 1; drop; generate_key (lines 45-50)
ProcessBegin(t) ==
    /\ pc[t] = "idle"
    /\ calls_started < MaxCalls
    /\ write_available(batch_lock)
    /\ calls_started' = calls_started + 1
    /\ total_requests' = total_requests + 1
    /\ \E messages \in ClientMessages, model \in ModelNames, system_prompt \in SystemPrompts :
          local' = [local EXCEPT ![t] =
                       [CallLocal(messages, model, system_prompt, FALSE, TRUE)
                           EXCEPT !.effects = {"total_requests"}]]
    /\ Goto(t, "process_get")
    /\ result' = NoResult
    /\ UNCHANGED <<cached_responses, batches_processed, total_batch_size, batch_lock,
                   backend_calls, cache_store, inserted_at, set_log, hits, misses>>
    /\ UNCHANGED failed_calls
    /\ CallFrame

\* self.cache.get(&cache_key).await (line 52)
ProcessCacheGet(t) ==
    /\ pc[t] = "process_get"
    /\ write_available(stats_lock)
    /\ LET cached == cache_get(local[t].cache_key)
       IN  /\ count_get(cached)
           /\ local' = [local EXCEPT ![t].cached = cached,
                                     ![t].effects = @ \cup {"cache.get"}]
           /\ Goto(t, IF IsSome(cached) THEN "process_hit" ELSE "process_backend")
    /\ result' = NoResult
    /\ UNCHANGED <<total_requests, cached_responses, batches_processed, total_batch_size,
                   batch_lock, calls_started, backend_calls, cache_store, inserted_at,
                   set_log>>
    /\ UNCHANGED failed_calls
    /\ CallFrame

\* self.stats.write().await; cached_responses += 1; return Ok(cached) (lines 53-56)
ProcessHit_counts_batch(t) ==
    /\ pc[t] = "process_hit"
    /\ write_available(batch_lock)
    /\ cached_responses' = cached_responses + 1
    /\ batches_processed' = batches_processed + 1
    /\ Return(t, "process", local[t].cache_key, Ok(Unwrap(local[t].cached)))
    /\ UNCHANGED <<total_requests, total_batch_size, batch_lock,
                   calls_started, backend_calls, cache_store, inserted_at, set_log,
                   hits, misses>>
    /\ UNCHANGED failed_calls
    /\ CallFrame
ProcessHit(t) ==
    /\ pc[t] = "process_hit"
    /\ write_available(batch_lock)
    /\ cached_responses' = cached_responses + 1
    /\ Return(t, "process", local[t].cache_key, Ok(Unwrap(local[t].cached)))
    /\ UNCHANGED <<total_requests, batches_processed, total_batch_size, batch_lock,
                   calls_started, backend_calls, cache_store, inserted_at, set_log,
                   hits, misses>>
    /\ UNCHANGED failed_calls
    /\ CallFrame

\* self.ollama.chat_completion(...).await? (lines 61-64)
ProcessBackend_caches_failure(t) ==
    /\ pc[t] = "process_backend"
    /\ backend_calls' = send(backend_calls,
          OllamaRequest(local[t].model,
                        all_messages(local[t].system_prompt, local[t].messages)))
    /\ \E outcome \in BackendOutcomes :
          /\ failed_calls' = IF outcome.ok THEN failed_calls ELSE failed_calls + 1
          /\ IF outcome.ok
             THEN /\ local' = [local EXCEPT ![t].response = outcome.response,
                                            ![t].effects = @ \cup {"backend"}]
                  /\ Goto(t, "process_set")
                  /\ result' = NoResult
                  /\ UNCHANGED <<cache_store, inserted_at, set_log>>
             ELSE /\ cache_store' = cache_set(cache_store, local[t].cache_key, <<>>)
                  /\ inserted_at' = cache_stamp(cache_store, inserted_at, local[t].cache_key)
                  /\ set_log' = Append(set_log, <<local[t].cache_key, <<>>, "process">>)
                  /\ Return(t, "process", local[t].cache_key, outcome)
    /\ UNCHANGED <<total_requests, cached_responses, batches_processed, total_batch_size,
                   batch_lock, calls_started, hits, misses>>
    /\ CallFrame
ProcessBackend(t) ==
    /\ pc[t] = "process_backend"
    /\ backend_calls' = send(backend_calls,
          OllamaRequest(local[t].model,
                        all_messages(local[t].system_prompt, local[t].messages)))
    /\ \E outcome \in BackendOutcomes :
          /\ failed_calls' = IF outcome.ok THEN failed_calls ELSE failed_calls + 1
          /\ IF outcome.ok
             THEN /\ local' = [local EXCEPT ![t].response = outcome.response,
                                            ![t].effects = @ \cup {"backend"}]
                  /\ Goto(t, "process_set")
                  /\ result' = NoResult
             ELSE Return(t, "process", local[t].cache_key, outcome)
    /\ UNCHANGED <<total_requests, cached_responses, batches_processed, total_batch_size,
                   batch_lock, calls_started, cache_store, inserted_at, set_log,
                   hits, misses>>
    /\ CallFrame

\* self.cache.set(cache_key, response.clone()).await (line 67)
ProcessCacheSet(t) ==
    /\ pc[t] = "process_set"
    /\ cache_store' = cache_set(cache_store, local[t].cache_key, Unwrap(local[t].response))
    /\ inserted_at' = cache_stamp(cache_store, inserted_at, local[t].cache_key)
    /\ set_log' = Append(set_log,
                        <<local[t].cache_key, Unwrap(local[t].response), "process">>)
    /\ Did(t, "cache.set")
    /\ Goto(t, "process_done")
    /\ result' = NoResult
    /\ UNCHANGED <<total_requests, cached_responses, batches_processed, total_batch_size,
                   batch_lock, calls_started, backend_calls, hits, misses>>
    /\ UNCHANGED failed_calls
    /\ CallFrame

\* self.stats.write().await; batches_processed += 1; total_batch_size += 1;
\* Ok(response) (lines 69-73)
ProcessDone_skips_batches(t) ==
    /\ pc[t] = "process_done"
    /\ write_available(batch_lock)
    /\ total_batch_size' = total_batch_size + 1
    /\ Return(t, "process", local[t].cache_key, Ok(Unwrap(local[t].response)))
    /\ UNCHANGED <<total_requests, cached_responses, batches_processed, batch_lock,
                   calls_started, backend_calls, cache_store, inserted_at, set_log,
                   hits, misses>>
    /\ UNCHANGED failed_calls
    /\ CallFrame
ProcessDone(t) ==
    /\ pc[t] = "process_done"
    /\ write_available(batch_lock)
    /\ batches_processed' = batches_processed + 1
    /\ total_batch_size' = total_batch_size + 1
    /\ Return(t, "process", local[t].cache_key, Ok(Unwrap(local[t].response)))
    /\ UNCHANGED <<total_requests, cached_responses, batch_lock, calls_started,
                   backend_calls, cache_store, inserted_at, set_log, hits, misses>>
    /\ UNCHANGED failed_calls
    /\ CallFrame

\* ============================================== handlers/chat.rs: chat_optimized
ChatResponse(content, cached) == [message |-> ChatMessage(content), cached |-> cached]
\* the bodies chat_optimized answers with
Json(response) == [kind |-> "json", response |-> response]
SseCached(content) == [kind |-> "sse", stream |-> "stream_cached_response",
                       content |-> content]
SseLive(key, with_cache) == [kind |-> "sse", stream |-> "stream_ollama_response",
                             cache_key |-> key, use_cache |-> with_cache]

\* main (main.rs lines 38-80): one response cache shared by the BatchProcessor
\* and the chat handler, no request served yet
ServeInit ==
    /\ total_requests = 0
    /\ cached_responses = 0
    /\ deduplicated_requests = 0
    /\ batches_processed = 0
    /\ total_batch_size = 0
    /\ batch_lock = UnlockedRw
    /\ calls_started = 0
    /\ backend_calls = NoBackendCalls
    /\ failed_calls = 0
    /\ conversation_cache = NewCacheService
    /\ cache_enabled \in BOOLEAN
    /\ cache_store = [k \in RequestKeys |-> None]
    /\ inserted_at = [k \in RequestKeys |-> 0]
    /\ last_set = [k \in RequestKeys |-> None]
    /\ set_log = <<>>
    /\ now = 0
    /\ ttl_seconds = 2
    /\ max_size_mb = 10
    /\ hits = 0
    /\ misses = 0
    /\ stats_lock = UnlockedRw
    /\ ops_started = 0
    /\ returned_some = 0
    /\ returned_none = 0
    /\ cleared = FALSE
    /\ pc = [t \in Tasks |-> "idle"]
    /\ local = [t \in Tasks |-> NoLocal]
    /\ result = NoResult
    \* the queue is as constructed, no stream is open
    /\ queue = <<>>
    /\ processing = FALSE
    /\ queue_lock = UnlockedRw
    /\ processing_lock = UnlockedRw
    /\ next_uuid = 1
    /\ enq_order = <<>>
    /\ cancelled_ids = {}
    /\ dequeued_ids = {}
    /\ ls_pc = "unused"
    /\ use_cache = FALSE
    /\ cache_key = "k1"
    /\ ls_cur = None
    /\ accumulated = <<>>
    /\ ls_out = <<>>
    /\ backend_sent = <<>>
    /\ ls_received = <<>>
    /\ lines_sent = 0
    /\ rp_content = <<>>
    /\ words = <<>>
    /\ rp_i = 0
    /\ rp_out = <<>>
    /\ rp_pc = "unused"

\* the request arrives; model and system_prompt default to those of the state;
\* if request.use_cache { state.cache.get(&cache_key).await ... } (lines 26-54)
ChatLookup(t) ==
    /\ pc[t] = "idle"
    /\ calls_started < MaxCalls
    /\ calls_started' = calls_started + 1
    /\ write_available(stats_lock)
    /\ \E messages \in ClientMessages, model \in ModelNames,
          system_prompt \in SystemPrompts, stream \in BOOLEAN, with_cache \in BOOLEAN :
          LET call == CallLocal(messages, model, system_prompt, stream, with_cache)
              cached == cache_get(call.cache_key)
          IN  IF with_cache
              THEN /\ count_get(cached)
                   /\ IF IsSome(cached)
                      THEN Return(t, "chat", call,
                                  Ok(IF stream THEN SseCached(Unwrap(cached))
                                     ELSE Json(ChatResponse(Unwrap(cached), Some(TRUE)))))
                      ELSE /\ local' = [local EXCEPT ![t] =
                                           [call EXCEPT !.effects = {"cache.get"}]]
                           /\ Goto(t, "chat_backend")
                           /\ result' = NoResult
              ELSE /\ local' = [local EXCEPT ![t] = call]
                   /\ Goto(t, "chat_backend")
                   /\ result' = NoResult
                   /\ UNCHANGED <<hits, misses>>
    /\ UNCHANGED <<total_requests, cached_responses, batches_processed, total_batch_size,
                   batch_lock, backend_calls, cache_store, inserted_at, set_log>>
    /\ UNCHANGED failed_calls
    /\ CallFrame

\* the backend call of either branch returns (lines 57-82, 98-101)
ChatBackend_always_caches(t) ==
    /\ pc[t] = "chat_backend"
    /\ backend_calls' = send(backend_calls,
          OllamaRequest(local[t].model,
                        all_messages(local[t].system_prompt, local[t].messages)))
    /\ \E outcome \in BackendOutcomes :
          IF ~outcome.ok
          THEN Return(t, "chat", local[t], Err("INTERNAL_SERVER_ERROR"))
          ELSE IF local[t].stream
          THEN Return(t, "chat", local[t],
                      Ok(SseLive(generate_key(local[t].messages, local[t].model),
                                 local[t].use_cache)))
          ELSE IF TRUE
          THEN /\ local' = [local EXCEPT ![t].response = outcome.response,
                                         ![t].effects = @ \cup {"backend"}]
               /\ Goto(t, "chat_set")
               /\ result' = NoResult
          ELSE Return(t, "chat", local[t],
                      Ok(Json(ChatResponse(Unwrap(outcome.response), Some(FALSE)))))
    /\ UNCHANGED <<total_requests, cached_responses, batches_processed, total_batch_size,
                   batch_lock, calls_started, cache_store, inserted_at, set_log,
                   hits, misses>>
    /\ UNCHANGED failed_calls
    /\ CallFrame
ChatBackend(t) ==
    /\ pc[t] = "chat_backend"
    /\ backend_calls' = send(backend_calls,
          OllamaRequest(local[t].model,
                        all_messages(local[t].system_prompt, local[t].messages)))
    /\ \E outcome \in BackendOutcomes :
          IF ~outcome.ok
          THEN Return(t, "chat", local[t], Err("INTERNAL_SERVER_ERROR"))
          ELSE IF local[t].stream
          THEN Return(t, "chat", local[t],
                      Ok(SseLive(generate_key(local[t].messages, local[t].model),
                                 local[t].use_cache)))
          ELSE IF local[t].use_cache
          THEN /\ local' = [local EXCEPT ![t].response = outcome.response,
                                         ![t].effects = @ \cup {"backend"}]
               /\ Goto(t, "chat_set")
               /\ result' = NoResult
          ELSE Return(t, "chat", local[t],
                      Ok(Json(ChatResponse(Unwrap(outcome.response), Some(FALSE)))))
    /\ UNCHANGED <<total_requests, cached_responses, batches_processed, total_batch_size,
                   batch_lock, calls_started, cache_store, inserted_at, set_log,
                   hits, misses>>
    /\ UNCHANGED failed_calls
    /\ CallFrame

\* state.cache.set(cache_key, content.clone()).await and the answer (lines 84-96)
ChatCacheSet(t) ==
    /\ pc[t] = "chat_set"
    /\ LET key == generate_key(local[t].messages, local[t].model)
       IN  /\ cache_store' = cache_set(cache_store, key, Unwrap(local[t].response))
           /\ inserted_at' = cache_stamp(cache_store, inserted_at, key)
           /\ set_log' = Append(set_log, <<key, Unwrap(local[t].response), "chat">>)
    /\ Return(t, "chat", [local[t] EXCEPT !.effects = @ \cup {"cache.set"}],
              Ok(Json(ChatResponse(Unwrap(local[t].response), Some(FALSE)))))
    /\ UNCHANGED <<total_requests, cached_responses, batches_processed, total_batch_size,
                   batch_lock, calls_started, backend_calls, hits, misses>>
    /\ UNCHANGED failed_calls
    /\ CallFrame

\* the requests served concurrently
ServeNext ==
    \E t \in Tasks :
          \/ ProcessBegin(t)
          \/ ProcessCacheGet(t)
          \/ ProcessHit(t)
          \/ ProcessBackend(t)
          \/ ProcessCacheSet(t)
          \/ ProcessDone(t)
          \/ ChatLookup(t)
          \/ ChatBackend(t)
          \/ ChatCacheSet(t)

\* ======================================================== handlers/queue.rs
QueueResponse(request_id, status) == [request_id |-> request_id, status |-> status]
QueueStatusResponse(request_id, completed, status) ==
    [request_id |-> request_id, completed |-> completed, status |-> status]

\* main (main.rs lines 41, 88-104): the queue the handlers are given
ApiInit ==
    /\ queue = <<>>
    /\ processing = FALSE
    /\ queue_lock = UnlockedRw
    /\ processing_lock = UnlockedRw
    /\ next_uuid = 1
    /\ pc = [t \in Tasks |-> "idle"]
    /\ local = [t \in Tasks |-> NoLocal]
    /\ result = NoResult
    /\ enq_order = <<>>
    /\ cancelled_ids = {}
    /\ dequeued_ids = {}
    \* no stream is open
    /\ ls_pc = "unused"
    /\ use_cache = FALSE
    /\ cache_key = "k1"
    /\ ls_cur = None
    /\ accumulated = <<>>
    /\ ls_out = <<>>
    /\ backend_sent = <<>>
    /\ ls_received = <<>>
    /\ lines_sent = 0
    /\ cache_store = [k \in Keys |-> None]
    /\ cache_enabled = TRUE
    /\ set_log = <<>>
    /\ rp_content = <<>>
    /\ words = <<>>
    /\ rp_i = 0
    /\ rp_out = <<>>
    /\ rp_pc = "unused"
    \* the cache service is as constructed, the clock stands
    /\ now = 0
    /\ ttl_seconds = 1
    /\ max_size_mb = 10
    /\ inserted_at = [k \in Keys |-> 0]
    /\ hits = 0
    /\ misses = 0
    /\ stats_lock = UnlockedRw
    /\ ops_started = 0
    /\ last_set = [k \in Keys |-> None]
    /\ returned_some = 0
    /\ returned_none = 0
    /\ cleared = FALSE
    \* the processor is as constructed
    /\ total_requests = 0
    /\ cached_responses = 0
    /\ deduplicated_requests = 0
    /\ batches_processed = 0
    /\ total_batch_size = 0
    /\ batch_lock = UnlockedRw
    /\ calls_started = 0
    /\ backend_calls = NoBackendCalls
    /\ failed_calls = 0
    /\ conversation_cache = NewCacheService

\* ---- enqueue_request (lines 18-38)
\* queue.enqueue(...) up to its self.queue.write().await (line 29)
EnqueueRequestBegin(t) ==
    /\ pc[t] = "idle"
    /\ next_uuid <= MaxRequests
    /\ \E m \in ModelNames :
          local' = [local EXCEPT ![t] = [NoLocal EXCEPT !.id = next_uuid, !.model = m]]
    /\ next_uuid' = next_uuid + 1
    /\ Goto(t, "api_enqueue_lock")
    /\ result' = NoResult
    /\ UNCHANGED <<queue, processing, queue_lock, processing_lock,
                   enq_order, cancelled_ids, dequeued_ids>>
    /\ UNCHANGED <<liveVars, replayVars, cacheVars, batchVars, statsVars>>

\* enqueue pushes and returns the id; get_status(&request_id) is called (lines 29-33)
EnqueueRequestPush(t) ==
    /\ pc[t] = "api_enqueue_lock"
    /\ write_available(queue_lock)
    /\ queue' = push_back(queue, QueuedRequest(local[t].id, local[t].model))
    /\ enq_order' = Append(enq_order, local[t].id)
    /\ Goto(t, "api_enqueue_status")
    /\ result' = NoResult
    /\ UNCHANGED <<processing, queue_lock, processing_lock, next_uuid, local,
                   cancelled_ids, dequeued_ids>>
    /\ UNCHANGED <<liveVars, replayVars, cacheVars, batchVars, statsVars>>

\* get_status takes self.queue.read().await (line 33)
EnqueueRequestStatusLock(t) ==
    /\ pc[t] = "api_enqueue_status"
    /\ read_available(queue_lock)
    /\ queue_lock' = [queue_lock EXCEPT !.readers = @ \cup {t}]
    /\ Goto(t, "api_enqueue_answer")
    /\ result' = NoResult
    /\ UNCHANGED <<queue, processing, processing_lock, next_uuid, local,
                   enq_order, cancelled_ids, dequeued_ids>>
    /\ UNCHANGED <<liveVars, replayVars, cacheVars, batchVars, statsVars>>

\* get_status returns; .ok_or(INTERNAL_SERVER_ERROR)?; Ok(Json(QueueResponse)) (lines 32-37)
EnqueueRequestAnswer(t) ==
    /\ pc[t] = "api_enqueue_answer"
    /\ read_available(processing_lock)
    /\ LET pos == position(queue, local[t].id)
       IN  Return(t, "enqueue_request", local[t].id,
                  IF IsSome(pos)
                  THEN Ok(QueueResponse(local[t].id,
                                        QueueStatus(queue, Unwrap(pos), processing)))
                  ELSE Err("INTERNAL_SERVER_ERROR"))
    /\ queue_lock' = [queue_lock EXCEPT !.readers = @ \ {t}]
    /\ UNCHANGED <<queue, processing, processing_lock, next_uuid,
                   enq_order, cancelled_ids, dequeued_ids>>
    /\ UNCHANGED <<liveVars, replayVars, cacheVars, batchVars, statsVars>>

\* ---- get_queue_status (lines 41-67)
\* with a request id: queue.get_status(&request_id) takes the queue lock (line 47)
QueryStatusLock(t) ==
    /\ pc[t] = "idle"
    /\ read_available(queue_lock)
    /\ \E id \in RequestIds : local' = [local EXCEPT ![t] = [NoLocal EXCEPT !.id = id]]
    /\ queue_lock' = [queue_lock EXCEPT !.readers = @ \cup {t}]
    /\ Goto(t, "api_status_answer")
    /\ result' = NoResult
    /\ UNCHANGED <<queue, processing, processing_lock, next_uuid,
                   enq_order, cancelled_ids, dequeued_ids>>
    /\ UNCHANGED <<liveVars, replayVars, cacheVars, batchVars, statsVars>>

\* get_status returns and the match builds the answer (lines 47-58)
QueryStatusAnswer_completed_at_head(t) ==
    /\ pc[t] = "api_status_answer"
    /\ read_available(processing_lock)
    /\ LET pos == position(queue, local[t].id)
       IN  Return(t, "get_queue_status", Some(local[t].id),
                  Ok(IF IsSome(pos) /\ Unwrap(pos) > 0
                     THEN QueueStatusResponse(local[t].id, FALSE,
                             Some(QueueStatus(queue, Unwrap(pos), processing)))
                     ELSE QueueStatusResponse(local[t].id, TRUE, None)))
    /\ queue_lock' = [queue_lock EXCEPT !.readers = @ \ {t}]
    /\ UNCHANGED <<queue, processing, processing_lock, next_uuid,
                   enq_order, cancelled_ids, dequeued_ids>>
    /\ UNCHANGED <<liveVars, replayVars, cacheVars, batchVars, statsVars>>
QueryStatusAnswer(t) ==
    /\ pc[t] = "api_status_answer"
    /\ read_available(processing_lock)
    /\ LET pos == position(queue, local[t].id)
       IN  Return(t, "get_queue_status", Some(local[t].id),
                  Ok(IF IsSome(pos)
                     THEN QueueStatusResponse(local[t].id, FALSE,
                             Some(QueueStatus(queue, Unwrap(pos), processing)))
                     ELSE QueueStatusResponse(local[t].id, TRUE, None)))
    /\ queue_lock' = [queue_lock EXCEPT !.readers = @ \ {t}]
    /\ UNCHANGED <<queue, processing, processing_lock, next_uuid,
                   enq_order, cancelled_ids, dequeued_ids>>
    /\ UNCHANGED <<liveVars, replayVars, cacheVars, batchVars, statsVars>>

\* without a request id: queue.get_queue_info() takes the queue lock (line 61)
QueryInfoLock(t) ==
    /\ pc[t] = "idle"
    /\ read_available(queue_lock)
    /\ queue_lock' = [queue_lock EXCEPT !.readers = @ \cup {t}]
    /\ Goto(t, "api_info_answer")
    /\ result' = NoResult
    /\ UNCHANGED <<queue, processing, processing_lock, next_uuid, local,
                   enq_order, cancelled_ids, dequeued_ids>>
    /\ UNCHANGED <<liveVars, replayVars, cacheVars, batchVars, statsVars>>

\* get_queue_info returns (queue.len(), *processing) and the answer (lines 61-65)
QueryInfoAnswer(t) ==
    /\ pc[t] = "api_info_answer"
    /\ read_available(processing_lock)
    /\ queue_lock' = [queue_lock EXCEPT !.readers = @ \ {t}]
    /\ Return(t, "get_queue_status", None,
              Ok([queue_length |-> Len(queue), is_processing |-> processing]))
    /\ UNCHANGED <<queue, processing, processing_lock, next_uuid,
                   enq_order, cancelled_ids, dequeued_ids>>
    /\ UNCHANGED <<liveVars, replayVars, cacheVars, batchVars, statsVars>>

\* the queue handlers, and the queue operations other tasks of the process make
ApiNext ==
    \E t \in Tasks :
          \/ EnqueueRequestBegin(t)
          \/ EnqueueRequestPush(t)
          \/ EnqueueRequestStatusLock(t)
          \/ EnqueueRequestAnswer(t)
          \/ QueryStatusLock(t)
          \/ QueryStatusAnswer(t)
          \/ QueryInfoLock(t)
          \/ QueryInfoAnswer(t)
          \/ DequeueBegin(t)
          \/ DequeuePop(t)
          \/ SetProcessing(t)
          \/ CancelBegin(t)
          \/ CancelFind(t)
          \/ CancelRemove(t)

\* ================================== handlers/stats.rs and BatchProcessor::stats
\* ((part as f64 / total as f64) * 100.0) as u32: the cast drops the fraction
\* (batch.rs lines 86-96); exact for the counter values reached here
percent(part, total) ==
    IF total > 0 THEN (part * 100) \div total ELSE 0

\* BatchProcessor::stats (batch.rs lines 77-106)
BatchStats ==
    [total_requests |-> total_requests,
     cached_responses |-> cached_responses,
     deduplicated_requests |-> deduplicated_requests,
     batches_processed |-> batches_processed,
     average_batch_size |-> IF batches_processed > 0
                            THEN Ratio(total_batch_size, batches_processed)
                            ELSE Ratio(0, 1),
     cache_hit_rate |-> percent(cached_responses, total_requests),
     deduplication_rate |-> percent(deduplicated_requests, total_requests)]

\* CacheAction.action as the client sends it
ManageActions == {"clear", "clear_response_cache", "clear_conversation_cache",
                  "warm_model", "flush", ""}
\* the caches a clearing action clears, in the order of the calls (stats.rs lines 41-57)
caches_cleared(action) ==
    IF action = "clear" THEN <<"response", "conversation">>
    ELSE IF action = "clear_response_cache" THEN <<"response">>
    ELSE IF action = "clear_conversation_cache" THEN <<"conversation">>
    ELSE <<>>
ManageLocal(action) == [action |-> action, todo |-> caches_cleared(action)]
ActionResponse(success, message) == [success |-> success, message |-> message]

\* self.cache.invalidate_all() of CacheService::clear (cache.rs line 96) on one
\* of the two caches
clear_invalidate(which) ==
    IF which = "response"
    THEN /\ cache_store' = invalidate_all(cache_store)
         /\ inserted_at' = [k \in DOMAIN inserted_at |-> 0]
         /\ UNCHANGED conversation_cache
    ELSE /\ conversation_cache' =
               [conversation_cache EXCEPT !.store = invalidate_all(@)]
         /\ UNCHANGED <<cache_store, inserted_at>>

\* main (main.rs lines 38-80): the state the stats handlers are given
AdminInit ==
    /\ total_requests = 0
    /\ cached_responses = 0
    /\ deduplicated_requests = 0
    /\ batches_processed = 0
    /\ total_batch_size = 0
    /\ batch_lock = UnlockedRw
    /\ calls_started = 0
    /\ backend_calls = NoBackendCalls
    /\ failed_calls = 0
    /\ conversation_cache = NewCacheService
    /\ cache_enabled \in BOOLEAN
    /\ cache_store = [k \in RequestKeys |-> None]
    /\ inserted_at = [k \in RequestKeys |-> 0]
    /\ last_set = [k \in RequestKeys |-> None]
    /\ set_log = <<>>
    /\ now = 0
    /\ ttl_seconds = 2
    /\ max_size_mb = 10
    /\ hits = 0
    /\ misses = 0
    /\ stats_lock = UnlockedRw
    /\ ops_started = 0
    /\ returned_some = 0
    /\ returned_none = 0
    /\ cleared = FALSE
    /\ pc = [t \in Tasks |-> "idle"]
    /\ local = [t \in Tasks |-> NoLocal]
    /\ result = NoResult
    \* the queue is as constructed, no stream is open
    /\ queue = <<>>
    /\ processing = FALSE
    /\ queue_lock = UnlockedRw
    /\ processing_lock = UnlockedRw
    /\ next_uuid = 1
    /\ enq_order = <<>>
    /\ cancelled_ids = {}
    /\ dequeued_ids = {}
    /\ ls_pc = "unused"
    /\ use_cache = FALSE
    /\ cache_key = "k1"
    /\ ls_cur = None
    /\ accumulated = <<>>
    /\ ls_out = <<>>
    /\ backend_sent = <<>>
    /\ ls_received = <<>>
    /\ lines_sent = 0
    /\ rp_content = <<>>
    /\ words = <<>>
    /\ rp_i = 0
    /\ rp_out = <<>>
    /\ rp_pc = "unused"

\* the frame of the stats handlers
AdminFrame ==
    UNCHANGED <<queue, processing, queue_lock, processing_lock, next_uuid,
                enq_order, cancelled_ids, dequeued_ids,
                ls_pc, use_cache, cache_key, ls_cur, accumulated, ls_out, backend_sent,
                ls_received, lines_sent, cache_enabled, set_log, replayVars,
                now, ttl_seconds, max_size_mb, stats_lock, ops_started,
                returned_some, returned_none, cleared, last_set,
                total_requests, cached_responses, deduplicated_requests,
                batches_processed, total_batch_size, batch_lock, failed_calls>>

\* ---- BatchProcessor::stats, read under self.stats.read().await
BatchStatsRead(t) ==
    /\ pc[t] = "idle"
    /\ read_available(batch_lock)
    /\ Return(t, "batch_stats", "", BatchStats)
    /\ UNCHANGED <<calls_started, backend_calls, cache_store, inserted_at,
                   hits, misses, conversation_cache>>
    /\ AdminFrame

\* ---- manage_cache (stats.rs lines 36-83)
\* _ => Err(StatusCode::BAD_REQUEST) (line 81)
ManageReject_invalidates(t) ==
    /\ pc[t] = "idle"
    /\ \E action \in ManageActions :
          /\ caches_cleared(action) = <<>>
          /\ action # "warm_model"
          /\ Return(t, "manage_cache", action, Err("BAD_REQUEST"))
    /\ clear_invalidate("response")
    /\ UNCHANGED <<calls_started, backend_calls, hits, misses>>
    /\ AdminFrame
ManageReject(t) ==
    /\ pc[t] = "idle"
    /\ \E action \in ManageActions :
          /\ caches_cleared(action) = <<>>
          /\ action # "warm_model"
          /\ Return(t, "manage_cache", action, Err("BAD_REQUEST"))
    /\ UNCHANGED <<calls_started, backend_calls, cache_store, inserted_at,
                   hits, misses, conversation_cache>>
    /\ AdminFrame

\* "clear", "clear_response_cache", "clear_conversation_cache": the first
\* clear() runs up to its self.stats.write().await (lines 41-57, cache.rs line 96)
ManageClear(t) ==
    /\ pc[t] = "idle"
    /\ calls_started < MaxCalls
    /\ calls_started' = calls_started + 1
    /\ \E action \in ManageActions :
          /\ caches_cleared(action) # <<>>
          /\ local' = [local EXCEPT ![t] = ManageLocal(action)]
          /\ clear_invalidate(Head(caches_cleared(action)))
    /\ Goto(t, "clear_reset")
    /\ result' = NoResult
    /\ UNCHANGED <<backend_calls, hits, misses>>
    /\ AdminFrame

\* stats.hits = 0; stats.misses = 0 under the write lock (cache.rs lines 97-99);
\* then the next clear() up to its await, or the answer
ClearReset_resets_both(t) ==
    /\ pc[t] = "clear_reset"
    /\ write_available(stats_lock)
    /\ hits' = 0
    /\ misses' = 0
    /\ conversation_cache' = [conversation_cache EXCEPT !.hits = 0, !.misses = 0]
    /\ Return(t, "manage_cache", local[t].action, Ok(ActionResponse(TRUE, "cleared")))
    /\ UNCHANGED <<calls_started, backend_calls, cache_store, inserted_at, last_set>>
    /\ AdminFrame
ClearReset(t) ==
    /\ pc[t] = "clear_reset"
    /\ LET which == Head(local[t].todo)
           rest == Tail(local[t].todo)
       IN  /\ IF which = "response"
              THEN /\ write_available(stats_lock)
                   /\ hits' = 0
                   /\ misses' = 0
                   /\ IF rest = <<>>
                      THEN UNCHANGED <<cache_store, inserted_at, conversation_cache>>
                      ELSE clear_invalidate(Head(rest))
              ELSE /\ conversation_cache' =
                         [conversation_cache EXCEPT !.hits = 0, !.misses = 0]
                   /\ UNCHANGED <<hits, misses, cache_store, inserted_at>>
           /\ IF rest = <<>>
              THEN Return(t, "manage_cache", local[t].action,
                          Ok(ActionResponse(TRUE, "cleared")))
              ELSE /\ local' = [local EXCEPT ![t].todo = rest]
                   /\ UNCHANGED pc
                   /\ result' = NoResult
    /\ UNCHANGED <<calls_started, backend_calls>>
    /\ AdminFrame

\* "warm_model": BatchProcessor::warm_model (batch.rs lines 109-123) and the
\* answer (stats.rs lines 63-80)
ManageWarm_through_cache(t) ==
    /\ pc[t] = "idle"
    /\ calls_started < MaxCalls
    /\ calls_started' = calls_started + 1
    /\ \E model \in ModelNames, outcome \in BackendOutcomes :
          /\ backend_calls' = send(backend_calls, warm_request(model))
          /\ Return(t, "manage_cache", "warm_model",
                    IF outcome.ok THEN Ok(ActionResponse(TRUE, "warmed"))
                    ELSE Err("INTERNAL_SERVER_ERROR"))
    /\ misses' = misses + 1
    /\ UNCHANGED <<cache_store, inserted_at, hits, conversation_cache>>
    /\ AdminFrame
ManageWarm(t) ==
    /\ pc[t] = "idle"
    /\ calls_started < MaxCalls
    /\ calls_started' = calls_started + 1
    /\ \E model \in ModelNames, outcome \in BackendOutcomes :
          /\ backend_calls' = send(backend_calls, warm_request(model))
          /\ Return(t, "manage_cache", "warm_model",
                    IF outcome.ok THEN Ok(ActionResponse(TRUE, "warmed"))
                    ELSE Err("INTERNAL_SERVER_ERROR"))
    /\ UNCHANGED <<cache_store, inserted_at, hits, misses, conversation_cache>>
    /\ AdminFrame

\* process calls and the stats handlers, served concurrently
AdminNext ==
    \E t \in Tasks :
          \/ ProcessBegin(t)
          \/ ProcessCacheGet(t)
          \/ ProcessHit(t)
          \/ ProcessBackend(t)
          \/ ProcessCacheSet(t)
          \/ ProcessDone(t)
          \/ BatchStatsRead(t)
          \/ ManageReject(t)
          \/ ManageClear(t)
          \/ ClearReset(t)
          \/ ManageWarm(t)

\* ======================= services/cache.rs: generate_key applied to two inputs
\* the model names, roles and contents of the transcripts that are fingerprinted;
\* the third content is the String "hi||assistant:yo"
KeyModels == {"deepseek-r1:8b", "llama3"}
KeyRoles == {Str("user"), Str("assistant")}
KeyContents == {Str("hi"), Str("yo"), <<"hi", "|", "|", "assistant", ":", "yo">>}
KeyMessages ==
    UNION {[1..n -> {Message(role, content) : role \in KeyRoles, content \in KeyContents}] :
              n \in 0..MaxMessages}
KeyInputs == [messages : KeyMessages, model : KeyModels]
\* the arguments of a generate_key call and the key it returned, if it has
KeyLocal(input) == [messages |-> input.messages, model |-> input.model, key |-> None]

\* every task is about to fingerprint a (messages, model) pair of its own
KeyInit ==
    /\ total_requests = 0
    /\ cached_responses = 0
    /\ deduplicated_requests = 0
    /\ batches_processed = 0
    /\ total_batch_size = 0
    /\ batch_lock = UnlockedRw
    /\ calls_started = 0
    /\ backend_calls = NoBackendCalls
    /\ failed_calls = 0
    /\ conversation_cache = NewCacheService
    /\ cache_enabled = TRUE
    /\ cache_store = [k \in RequestKeys |-> None]
    /\ inserted_at = [k \in RequestKeys |-> 0]
    /\ last_set = [k \in RequestKeys |-> None]
    /\ set_log = <<>>
    /\ now = 0
    /\ ttl_seconds = 2
    /\ max_size_mb = 10
    /\ hits = 0
    /\ misses = 0
    /\ stats_lock = UnlockedRw
    /\ ops_started = 0
    /\ returned_some = 0
    /\ returned_none = 0
    /\ cleared = FALSE
    /\ pc = [t \in Tasks |-> "key"]
    /\ local \in [Tasks -> {KeyLocal(input) : input \in KeyInputs}]
    /\ result = NoResult
    \* no request is served, the queue is as constructed, no stream is open
    /\ queue = <<>>
    /\ processing = FALSE
    /\ queue_lock = UnlockedRw
    /\ processing_lock = UnlockedRw
    /\ next_uuid = 1
    /\ enq_order = <<>>
    /\ cancelled_ids = {}
    /\ dequeued_ids = {}
    /\ ls_pc = "unused"
    /\ use_cache = FALSE
    /\ cache_key = "k1"
    /\ ls_cur = None
    /\ accumulated = <<>>
    /\ ls_out = <<>>
    /\ backend_sent = <<>>
    /\ ls_received = <<>>
    /\ lines_sent = 0
    /\ rp_content = <<>>
    /\ words = <<>>
    /\ rp_i = 0
    /\ rp_out = <<>>
    /\ rp_pc = "unused"

\* CacheService::generate_key (lines 41-52) returns to its caller
GenerateKey(t) ==
    /\ pc[t] = "key"
    /\ LET key == generate_key(local[t].messages, local[t].model)
       IN  /\ local' = [local EXCEPT ![t].key = Some(key)]
           /\ result' = [task |-> t, op |-> "generate_key",
                         arg |-> [messages |-> local[t].messages, model |-> local[t].model],
                         val |-> key]
    /\ Goto(t, "key_done")
    /\ UNCHANGED <<queue, processing, queue_lock, processing_lock, next_uuid,
                   enq_order, cancelled_ids, dequeued_ids>>
    /\ UNCHANGED <<liveVars, replayVars, cacheVars, batchVars, statsVars>>

KeyNext == \E t \in Tasks : GenerateKey(t)

\* ========================================================== specifications
SpecQueue == QueueInit /\ [][QueueNext]_vars
SpecLive == LiveInit /\ [][LiveNext]_vars
SpecReplay == ReplayInit /\ [][ReplayNext]_vars
\* the SSE response polls the stream until it is exhausted
SpecReplayFair == SpecReplay /\ WF_vars(ReplayNext)
SpecCache == CacheInit /\ [][CacheNext]_vars
SpecServe == ServeInit /\ [][ServeNext]_vars
SpecKey == KeyInit /\ [][KeyNext]_vars
SpecAdmin == AdminInit /\ [][AdminNext]_vars
SpecApi == ApiInit /\ [][ApiNext]_vars

\* ================================================================== claims
\* ---- helpers of the properties below
DoneCount(out) == Cardinality({i \in 1..Len(out) : out[i].done})
NonTerminal(out) == SelectSeq(out, LAMBDA c : ~c.done)
\* the content strings of the chunks that carry one, in order
ChunkContents(out) == [i \in 1..Len(out) |-> Unwrap(out[i].content)]
LastReceivedOk == ls_received # <<>> /\ ls_received[Len(ls_received)].ok
LastReceivedErr == ls_received # <<>> /\ ~ls_received[Len(ls_received)].ok
AllReceivedOk == \A i \in 1..Len(ls_received) : ls_received[i].ok
\* the message contents of the Ok items the relay received, in order
ReceivedContents ==
    LET withMessage == SelectSeq(ls_received,
                           LAMBDA r : r.ok /\ IsSome(Unwrap(r.response).message))
    IN  [i \in 1..Len(withMessage) |->
            Unwrap(Unwrap(withMessage[i].response).message).content]
\* the events the backend sent up to and including its first done:true event
SentUpToDone ==
    LET dones == {i \in 1..Len(backend_sent) : backend_sent[i].done}
    IN  IF dones = {} THEN backend_sent
        ELSE SubSeq(backend_sent, 1, CHOOSE i \in dones : \A j \in dones : i <= j)
SentContents ==
    LET withMessage == SelectSeq(SentUpToDone, LAMBDA e : IsSome(e.message))
    IN  [i \in 1..Len(withMessage) |-> Unwrap(withMessage[i].message).content]

\* C1: when the live relay has stopped, whether the backend stream ended with a
\* done:true event, with an error, or simply ended, it has emitted exactly one
\* chunk with done = true and that chunk is the last one emitted.
C1_LiveRelayTerminates ==
    ls_pc \in {"finished", "ended"} =>
        /\ DoneCount(ls_out) = 1
        /\ ls_out[Len(ls_out)].done

\* C2: a live relay that ended on a backend error has never called cache.set and
\* left the cache without an entry; every chunk forwarded before the error is
\* still in the output, and the last chunk has done = true and carries the error.
C2_NoCachingOnFailure ==
    (ls_pc = "finished" /\ LastReceivedErr) =>
        /\ set_log = <<>>
        /\ cache_store = [k \in Keys |-> None]
        /\ Len(ls_out) = Len(ReceivedContents) + 1
        /\ \A i \in 1..Len(ReceivedContents) :
              /\ ls_out[i].content = Some(ReceivedContents[i])
              /\ ~ls_out[i].done
              /\ ls_out[i].error = None
        /\ ls_out[Len(ls_out)].done
        /\ ls_out[Len(ls_out)].error = Some(ls_received[Len(ls_received)].error)
        /\ ls_out[Len(ls_out)].content = None

C2_Witness ==
    /\ ls_pc = "finished"
    /\ LastReceivedErr
    /\ use_cache
    /\ cache_enabled
    /\ Len(ls_out) = 3
    /\ accumulated = <<"a", "b">>

\* C3: with use_cache = true cache.set is called exactly once, when the done:true
\* event is consumed and before the terminal chunk is emitted, with the request's
\* key and the in-order concatenation of the contents of the non-terminal chunks;
\* with use_cache = false it is never called.
C3_ExactlyOnceCaching ==
    /\ Len(set_log) <= 1
    /\ ~use_cache => set_log = <<>>
    /\ ls_pc \in {"poll", "forward", "check_done", "ended"} => set_log = <<>>
    /\ (ls_pc = "emit_done" /\ use_cache) =>
          /\ DoneCount(ls_out) = 0
          /\ set_log = <<<<cache_key, Concat(ChunkContents(ls_out))>>>>
    /\ (ls_pc = "finished" /\ LastReceivedOk /\ use_cache) =>
          set_log = <<<<cache_key, Concat(ChunkContents(NonTerminal(ls_out)))>>>>
    /\ (set_log # <<>> /\ cache_enabled) =>
          cache_store[cache_key] = Some(set_log[1][2])

C3_Witness ==
    /\ ls_pc = "finished"
    /\ use_cache
    /\ cache_enabled
    /\ Len(ls_out) = 3
    /\ set_log = <<<<cache_key, <<"b", "a">>>>>>
    /\ cache_store[cache_key] = Some(<<"b", "a">>)

\* C4: whenever the relay waits for the next transport chunk or has stopped, and
\* no error was read, every event the backend has sent up to and including its
\* done:true event has been forwarded as its own non-terminal chunk with
\* cached = false, in order, and is part of the accumulated string, also when
\* several events arrived in one transport chunk.
C4_LiveRelayComplete ==
    (ls_pc \in {"poll", "finished", "ended"} /\ AllReceivedOk) =>
        /\ ChunkContents(NonTerminal(ls_out)) = SentContents
        /\ accumulated = Concat(SentContents)
        /\ \A i \in 1..Len(ls_out) : ~ls_out[i].done => ls_out[i].cached = Some(FALSE)

\* C5: the cached replay emits finitely many chunks and then stops; it never
\* emits a chunk after a done = true chunk, and when it has stopped exactly one
\* chunk has done = true, it is the last one, and every chunk has cached = true,
\* for every cached text, the empty and the whitespace-only ones included.
C5_ReplayTerminates ==
    /\ [](\A i \in 1..Len(rp_out) : rp_out[i].done => i = Len(rp_out))
    /\ [](rp_pc = "finished" =>
            /\ DoneCount(rp_out) = 1
            /\ rp_out[Len(rp_out)].done
            /\ \A i \in 1..Len(rp_out) : rp_out[i].cached = Some(TRUE))
    /\ <>(rp_pc = "finished")

C5_Witness ==
    /\ rp_pc = "finished"
    /\ Len(rp_content) = 2
    /\ words = <<>>
    /\ Len(rp_out) = 1

\* the maximal runs of non-whitespace characters of a text, by their positions
RunStarts(s) ==
    {i \in 1..Len(s) : s[i] \notin Whitespace /\ (i = 1 \/ s[i - 1] \in Whitespace)}
RunEnd(s, i) ==
    CHOOSE j \in i..Len(s) :
        /\ \A k \in i..j : s[k] \notin Whitespace
        /\ j = Len(s) \/ s[j + 1] \in Whitespace
KthRun(s, k) ==
    LET start == CHOOSE i \in RunStarts(s) :
                     Cardinality({j \in RunStarts(s) : j < i}) = k - 1
    IN  SubSeq(s, start, RunEnd(s, start))
RECURSIVE JoinSpaces(_)
JoinSpaces(ws) ==
    IF ws = <<>> THEN <<>>
    ELSE IF Len(ws) = 1 THEN ws[1]
    ELSE ws[1] \o <<" ">> \o JoinSpaces(Tail(ws))

\* C6: for a cached text with n whitespace-separated words the replay emits
\* exactly n non-terminal chunks, the i-th being word i followed by one space for
\* i < n and the bare word for i = n, so the chunk contents concatenate to the
\* words joined by single spaces.
C6_ReplayContent ==
    rp_pc = "finished" =>
        LET n == Cardinality(RunStarts(rp_content))
            wordsOf == [k \in 1..n |-> KthRun(rp_content, k)]
        IN  /\ Len(NonTerminal(rp_out)) = n
            /\ Len(rp_out) = n + 1
            /\ \A i \in 1..n :
                  /\ ~rp_out[i].done
                  /\ rp_out[i].content =
                        Some(IF i < n THEN wordsOf[i] \o <<" ">> ELSE wordsOf[i])
            /\ Concat(ChunkContents(NonTerminal(rp_out))) = JoinSpaces(wordsOf)

C6_Witness ==
    /\ rp_pc = "finished"
    /\ rp_content = <<"a", "\n", " ", "b">>
    /\ Len(rp_out) = 3
    /\ rp_out[1].content = Some(<<"a", " ">>)
    /\ rp_out[2].content = Some(<<"b">>)

\* ---- helpers of the queue properties
QueueIds(q) == {q[i].id : i \in 1..Len(q)}
EnqueueIndex(id) == CHOOSE i \in 1..Len(enq_order) : enq_order[i] = id
DequeueReturns(t) == pc[t] = "dequeue_lock" /\ pc'[t] = "idle"
CancelReturns(t) == pc[t] \in {"cancel_lock", "cancel_remove"} /\ pc'[t] = "idle"

\* C7: every dequeue returns absent on an empty queue and otherwise the request,
\* among those in the queue, that was enqueued earliest, and removes exactly it;
\* every request enqueued before it has been cancelled or was dequeued before it.
C7_QueueFifo ==
    [][\A t \in Tasks : DequeueReturns(t) =>
          /\ result'.op = "dequeue"
          /\ IF queue = <<>>
             THEN result'.val = None /\ queue' = queue
             ELSE LET earliest ==
                          CHOOSE e \in QueueIds(queue) :
                              \A o \in QueueIds(queue) : EnqueueIndex(e) <= EnqueueIndex(o)
                  IN  /\ IsSome(result'.val)
                      /\ Unwrap(result'.val).id = earliest
                      /\ \E i \in 1..Len(queue) : queue[i] = Unwrap(result'.val)
                      /\ queue' = SelectSeq(queue, LAMBDA r : r.id # earliest)
                      /\ Len(queue') = Len(queue) - 1
                      /\ \A i \in 1..(EnqueueIndex(earliest) - 1) :
                            enq_order[i] \in dequeued_ids \cup cancelled_ids
    ]_vars

C7_Witness ==
    /\ result.op = "dequeue"
    /\ IsSome(result.val)
    /\ Unwrap(result.val).id = 3
    /\ enq_order = <<2, 1, 3>>
    /\ dequeued_ids = {2, 3}
    /\ cancelled_ids = {1}

\* C8: get_status of an id at 0-based index p of a queue of length n returns
\* queue_position = p + 1, queue_length = n and estimated_wait_time =
\* p * estimated_time_per_request_ms; for an id not in the queue it returns absent.
C8_StatusArithmetic ==
    result.op = "get_status" =>
        LET at == {p \in 0..(Len(queue) - 1) : queue[p + 1].id = result.arg}
        IN  IF at = {} THEN result.val = None
            ELSE /\ IsSome(result.val)
                 /\ \A p \in at :
                       /\ Unwrap(result.val).queue_position = p + 1
                       /\ Unwrap(result.val).queue_length = Len(queue)
                       /\ Unwrap(result.val).estimated_wait_time =
                             p * estimated_time_per_request_ms

C8_Witness ==
    /\ result.op = "get_status"
    /\ Len(queue) = 3
    /\ queue[2].id = result.arg
    /\ IsSome(result.val)
    /\ Unwrap(result.val).queue_position = 2
    /\ Unwrap(result.val).estimated_wait_time = estimated_time_per_request_ms

\* C9: cancel of an id in the queue returns true and removes exactly that entry,
\* the others keeping their order, and it never returns true for an id a second
\* time; cancel of an id not in the queue returns false and changes nothing.
C9_Cancellation ==
    [][\A t \in Tasks : CancelReturns(t) =>
          LET id == local[t].id
          IN  /\ result'.op = "cancel"
              /\ result'.arg = id
              /\ IF id \in QueueIds(queue)
                 THEN /\ result'.val = Some(TRUE)
                      /\ id \notin cancelled_ids
                      /\ queue' = SelectSeq(queue, LAMBDA r : r.id # id)
                      /\ Len(queue') = Len(queue) - 1
                      /\ id \notin QueueIds(queue')
                 ELSE /\ result'.val = Some(FALSE)
                      /\ queue' = queue
    ]_vars

C9_Witness ==
    /\ result.op = "cancel"
    /\ result.val = Some(TRUE)
    /\ enq_order = <<1, 2, 3>>
    /\ result.arg = 2
    /\ QueueIds(queue) = {1, 3}
    /\ queue[1].id = 1

\* C10: no id is removed both by cancel and by dequeue: cancel never returns true
\* for an id that dequeue returned, in any interleaving of the two.
C10_CancelDequeueRace ==
    cancelled_ids \cap dequeued_ids = {}

C10_Witness ==
    \E t1, t2 \in Tasks :
        /\ pc[t1] = "cancel_remove"
        /\ local[t1].pos = Some(0)
        /\ queue # <<>>
        /\ queue[1].id = local[t1].id
        /\ pc[t2] = "dequeue_lock"

\* ---- helpers of the cache properties
GetLooksUp(t) == pc[t] = "idle" /\ pc'[t] = "get_stats_lock"
SetReturns(t) == pc[t] = "idle" /\ result'.op = "set" /\ result'.task = t
ContainsReturns(t) == pc[t] = "idle" /\ result'.op = "contains" /\ result'.task = t
Alive(s) == now - s.at < ttl_seconds

\* C11: on an enabled cache, a get of a key whose latest set, not followed by a
\* clear or an eviction, wrote v returns v while less than ttl_seconds have
\* passed since that set and returns None once ttl_seconds have passed; the
\* lifetime runs from the set whatever gets and contains came in between.
C11_RoundTripAndTtl ==
    [][\A t \in Tasks :
          (cache_enabled /\ GetLooksUp(t) /\ IsSome(last_set[local'[t].key]))
          => LET s == Unwrap(last_set[local'[t].key])
             IN  local'[t].value = IF Alive(s) THEN Some(s.value) ELSE None]_vars

\* a get that hit was followed, ttl_seconds or more after the set, by a get of
\* the same key that returned None
C11_Witness ==
    /\ cache_enabled
    /\ result.op = "get"
    /\ result.val = None
    /\ IsSome(last_set[result.arg])
    /\ ~Alive(Unwrap(last_set[result.arg]))
    /\ hits = 1
    /\ misses = 1
    /\ ops_started = 3

\* C12: on an enabled cache, set(k, v2) on a key that holds v1 leaves one entry
\* for k, and a following get(k) returns v2 for ttl_seconds from the second
\* set and never v1.
C12_Replacement ==
    [][\A t \in Tasks :
          /\ (cache_enabled /\ SetReturns(t) /\ IsSome(moka_get(cache_store, result'.arg)))
             => /\ entry_count(cache_store') = entry_count(cache_store)
                /\ cache_store'[result'.arg] = result'.val
          /\ (cache_enabled /\ GetLooksUp(t) /\ IsSome(last_set[local'[t].key])
                /\ IsSome(Unwrap(last_set[local'[t].key]).prev))
             => LET s == Unwrap(last_set[local'[t].key])
                IN  /\ Alive(s) => local'[t].value = Some(s.value)
                    /\ s.prev # Some(s.value) => local'[t].value # s.prev]_vars

\* v1 was replaced by v2 a second after it was written, and a get made when the
\* first entry would have expired returned v2
C12_Witness ==
    /\ cache_enabled
    /\ ttl_seconds = 2
    /\ now = 2
    /\ result.op = "get"
    /\ IsSome(last_set[result.arg])
    /\ Unwrap(last_set[result.arg]).at = 1
    /\ Unwrap(last_set[result.arg]).prev = Some(<<"a">>)
    /\ result.val = Some(<<"b">>)

\* C13: with enabled = false every get returns None, every contains returns
\* false, the store holds no entry and the hit and miss counters keep their
\* initial value, whatever get, set and contains calls were made.
C13_Disabled ==
    ~cache_enabled
    => /\ \A k \in Keys : cache_store[k] = None
       /\ hits = 0
       /\ misses = 0
       /\ result.op = "get" => result.val = None
       /\ result.op = "contains" => result.val = Some(FALSE)

\* on a disabled cache a set was called and a later get of its key returned None
C13_Witness ==
    /\ ~cache_enabled
    /\ result.op = "get"
    /\ result.val = None
    /\ IsSome(last_set[result.arg])

\* C14: on an enabled cache on which clear was never called, under every
\* interleaving of get, set and contains, hits is the number of completed gets
\* that returned a value and misses the number of completed gets that returned
\* None, and a contains call changes neither counter.
C14_CounterAccuracy ==
    [][/\ (cache_enabled /\ ~cleared' /\ \A t \in Tasks : pc'[t] # "clear_stats_lock")
          => (hits' = returned_some' /\ misses' = returned_none')
       /\ \A t \in Tasks : ContainsReturns(t) => (hits' = hits /\ misses' = misses)]_vars

\* a get returned and was counted while the other task's get, which had already
\* looked its key up, waited for the metrics lock
C14_Witness ==
    /\ cache_enabled
    /\ ~cleared
    /\ result.op = "get"
    /\ result.task = "t1"
    /\ IsSome(result.val)
    /\ pc["t2"] = "get_stats_lock"
    /\ IsSome(local["t2"].value)
    /\ hits = 1

\* C15: once clear has returned, and until a later set, a get of any key
\* returns None, and the hit and miss counters count only gets made after the
\* clear returned, also when gets run concurrently with the clear.
C15_Clear ==
    [][/\ \A t \in Tasks :
             (cleared /\ GetLooksUp(t) /\ last_set[local'[t].key] = None
                /\ \A u \in Tasks : pc[u] # "clear_stats_lock")
             => local'[t].value = None
       /\ cleared' => (hits' <= returned_some' /\ misses' <= returned_none')]_vars

\* C16: stats reports hit_rate = hits / (hits + misses) and miss_rate =
\* misses / (hits + misses), both 0 when nothing was counted, so that the two
\* add up to 1 when hits + misses > 0 and are both 1/2 after one miss and one hit.
C16_HitRateArithmetic ==
    result.op = "stats"
    => LET r == Unwrap(result.val)
       IN  /\ hits + misses > 0
              => /\ RatioEq(r.hit_rate, Ratio(hits, hits + misses))
                 /\ RatioEq(r.miss_rate, Ratio(misses, hits + misses))
                 /\ RatioEq(RatioSum(r.hit_rate, r.miss_rate), Ratio(1, 1))
           /\ hits + misses = 0
              => /\ RatioEq(r.hit_rate, Ratio(0, 1))
                 /\ RatioEq(r.miss_rate, Ratio(0, 1))
           /\ (hits = 1 /\ misses = 1)
              => /\ RatioEq(r.hit_rate, Ratio(1, 2))
                 /\ RatioEq(r.miss_rate, Ratio(1, 2))

\* stats was read after one miss and one hit
C16_Witness ==
    /\ result.op = "stats"
    /\ hits = 1
    /\ misses = 1
    /\ returned_some = 1
    /\ returned_none = 1
    /\ Unwrap(result.val).hit_rate = Ratio(1, 2)

\* ---- helpers of the properties of process and chat_optimized
ProcessBegins(t) == pc[t] = "idle" /\ pc'[t] = "process_get"
ProcessLooksUp(t) == pc[t] = "process_get" /\ pc'[t] # "process_get"
ProcessHits(t) == pc[t] = "process_get" /\ pc'[t] = "process_hit"
ProcessReturnsHit(t) == pc[t] = "process_hit" /\ pc'[t] = "idle"
ProcessFails(t) == pc[t] = "process_backend" /\ pc'[t] = "idle"
ChatFails(t) == pc[t] = "chat_backend" /\ pc'[t] = "idle" /\ ~result'.val.ok
ChatLooksUp(t) ==
    /\ pc[t] = "idle"
    /\ pc'[t] = "chat_backend" \/ (result'.op = "chat" /\ result'.task = t)
\* the request of the chat call that has just made its lookup
CallOf(t) == IF pc'[t] = "chat_backend" THEN local'[t] ELSE result'.arg
\* the indexes of the cache.set calls made for a key so far
SetsFor(key) == {i \in 1..Len(set_log) : set_log[i][1] = key}
LastSetFor(key) == CHOOSE i \in SetsFor(key) : \A j \in SetsFor(key) : j <= i
NothingCached == set_log' = set_log /\ cache_store' = cache_store
                    /\ inserted_at' = inserted_at

\* C17: process increments total_requests before it looks the cache up; when
\* the lookup hits, the call increments cached_responses by one and returns
\* the cached text, and it sends nothing to the backend, calls no cache.set
\* and does not increment batches_processed.
C17_ProcessHitPath ==
    [][\A t \in Tasks :
          /\ ProcessBegins(t)
             => /\ total_requests' = total_requests + 1
                /\ hits' = hits
                /\ misses' = misses
          /\ ProcessLooksUp(t)
             => /\ total_requests' = total_requests
                /\ "total_requests" \in local[t].effects
          /\ ProcessHits(t)
             => /\ local'[t].cached = cache_store[local[t].cache_key]
                /\ backend_calls' = backend_calls
                /\ batches_processed' = batches_processed
                /\ NothingCached
          /\ ProcessReturnsHit(t)
             => /\ cached_responses' = cached_responses + 1
                /\ result'.val = Ok(Unwrap(local[t].cached))
                /\ local[t].effects = {"total_requests", "cache.get"}
                /\ backend_calls' = backend_calls
                /\ batches_processed' = batches_processed
                /\ NothingCached]_vars

\* a process call was served from the entry an earlier process call had stored
C17_Witness ==
    /\ result.op = "process"
    /\ result.val.ok
    /\ total_requests = 2
    /\ hits = 1
    /\ misses = 1
    /\ cached_responses = 1
    /\ batches_processed = 1
    /\ calls_started = 2

\* C18: when the backend call fails after a cache miss, process and the
\* non-streaming branch of chat_optimized return the failure and call no
\* cache.set, and process has incremented neither cached_responses nor
\* batches_processed: of the counters only total_requests and the miss counter
\* of the cache have moved.
C18_FailureNotCached ==
    [][\A t \in Tasks :
          /\ ProcessFails(t)
             => /\ ~result'.val.ok
                /\ local[t].effects \subseteq {"total_requests", "cache.get"}
                /\ NothingCached
                /\ cached_responses' = cached_responses
                /\ batches_processed' = batches_processed
                /\ total_batch_size' = total_batch_size
                /\ hits' = hits
          /\ (ChatFails(t) /\ ~local[t].stream)
             => /\ result'.val = Err("INTERNAL_SERVER_ERROR")
                /\ local[t].effects \subseteq {"cache.get"}
                /\ NothingCached
                /\ hits' = hits]_vars

\* the only process call made so far missed and its backend call failed
C18_Witness ==
    /\ result.op = "process"
    /\ ~result.val.ok
    /\ calls_started = 1
    /\ total_requests = 1
    /\ misses = 1
    /\ hits = 0
    /\ cached_responses = 0
    /\ batches_processed = 0
    /\ set_log = <<>>

\* C19 as stated: with use_cache = true and stream = false, a chat call made
\* after a chat call that missed and stored the backend's text t returns t
\* with cached = true and sends nothing to the backend, while the call that
\* missed returned cached = false.
C19_SecondCallCached_AsStated ==
    [][\A t \in Tasks :
          /\ (ChatLooksUp(t) /\ CallOf(t).use_cache /\ ~CallOf(t).stream)
             => \A i \in SetsFor(CallOf(t).cache_key) :
                   set_log[i][3] = "chat"
                   => /\ pc'[t] = "idle"
                      /\ result'.val = Ok(Json(ChatResponse(set_log[i][2], Some(TRUE))))
                      /\ backend_calls' = backend_calls
          /\ (pc[t] = "chat_set" /\ pc'[t] = "idle")
             => result'.val = Ok(Json(ChatResponse(Unwrap(local[t].response), Some(FALSE))))
       ]_vars

\* C19: with the cache enabled, use_cache = true and stream = false, a chat
\* call made after a chat call that missed and stored the backend's text t,
\* with no other cache.set for the key in between, returns t with cached = true
\* and sends nothing to the backend, while the call that missed returned
\* cached = false.
C19_SecondCallCached ==
    [][\A t \in Tasks :
          /\ (cache_enabled /\ ChatLooksUp(t) /\ CallOf(t).use_cache /\ ~CallOf(t).stream
                /\ SetsFor(CallOf(t).cache_key) # {})
             => LET i == LastSetFor(CallOf(t).cache_key)
                IN  /\ pc'[t] = "idle"
                    /\ result'.val = Ok(Json(ChatResponse(set_log[i][2], Some(TRUE))))
                    /\ backend_calls' = backend_calls
          /\ (pc[t] = "chat_set" /\ pc'[t] = "idle")
             => result'.val = Ok(Json(ChatResponse(Unwrap(local[t].response), Some(FALSE))))
       ]_vars

\* two chat calls were made: the first missed, was answered by the backend and
\* stored the text, the second was answered with that text and cached = true
C19_Witness ==
    /\ cache_enabled
    /\ calls_started = 2
    /\ total_requests = 0
    /\ Len(set_log) = 1
    /\ set_log[1][3] = "chat"
    /\ misses = 1
    /\ hits = 1
    /\ result.op = "chat"
    /\ result.val = Ok(Json(ChatResponse(set_log[1][2], Some(TRUE))))
    /\ \A r \in BackendRequests : backend_calls[r] <= 1
    /\ \E r \in BackendRequests : backend_calls[r] = 1 /\
          \A q \in BackendRequests \ {r} : backend_calls[q] = 0

\* C20: the key under which chat_optimized looks a response up and stores it
\* is the fingerprint of the model name and the transcript that starts with
\* the system-prompt message, followed by the client messages, so that two
\* requests with the same model and client messages and different system
\* prompts use different keys.
C20_KeyCoversTranscript ==
    [][\A t \in Tasks :
          ChatLooksUp(t)
          => /\ CallOf(t).cache_key =
                   generate_key(all_messages(CallOf(t).system_prompt, CallOf(t).messages),
                                CallOf(t).model)
             /\ \A u \in Tasks \ {t} :
                   (pc[u] \in {"chat_backend", "chat_set"}
                      /\ local[u].model = CallOf(t).model
                      /\ local[u].messages = CallOf(t).messages
                      /\ local[u].system_prompt # CallOf(t).system_prompt)
                   => local[u].cache_key # CallOf(t).cache_key]_vars

\* ------------------------------------------------------ fingerprint claims
\* C21: generate_key returns the same key for equal (model, messages) inputs
\* and, SHA-256 taken to be injective, different keys for two inputs that
\* differ in the model name, the number of messages, their order, a role or a
\* content, also when a string contains ':' or '||'.
C21_KeyDistinct ==
    \A t \in Tasks, u \in Tasks :
       (pc[t] = "key_done" /\ pc[u] = "key_done")
       => (local[t].key = local[u].key
             <=> (local[t].model = local[u].model
                    /\ local[t].messages = local[u].messages))

\* ------------------------------------------------- stats and management claims
\* part / total * 100 rounded to the nearest integer
percent_rounded(part, total) ==
    IF total > 0 THEN (part * 200 + total) \div (2 * total) ELSE 0

\* C22: for all counter values, BatchProcessor::stats reports cache_hit_rate
\* equal to cached_responses / total_requests * 100 rounded to the nearest
\* integer, and 0 when total_requests = 0; 2 hits out of 3 requests report 67.
C22_HitRateRounded ==
    result.op = "batch_stats"
    => result.val.cache_hit_rate =
          percent_rounded(result.val.cached_responses, result.val.total_requests)

\* ------------------------------------------------------- queue handler claims
EnqueueRequestReturns(t) == result'.task = t /\ result'.op = "enqueue_request"

\* C23: every call of the enqueue endpoint appends one request with a fresh
\* id, whatever the queue length and the processing flag, and answers with
\* that id and its QueueStatus, in every interleaving with the dequeue, cancel
\* and set_processing operations of other tasks.
C23_EnqueueAnswersStatus ==
    [][\A t \in Tasks :
          /\ (pc[t] = "api_enqueue_lock" /\ pc'[t] # "api_enqueue_lock")
             => /\ local[t].id \notin Range(enq_order)
                /\ queue' = Append(queue, QueuedRequest(local[t].id, local[t].model))
          /\ EnqueueRequestReturns(t)
             => /\ result'.val.ok
                /\ Unwrap(result'.val.response).request_id = result'.arg
                /\ Unwrap(result'.val.response).status.queue_length = Len(queue)]_vars

\* C24: the status endpoint called with a request id answers completed=false
\* with a present status exactly when that id is in the queue, and
\* completed=true with no status for every other id, whether it was never
\* enqueued, was dequeued or was cancelled; called without an id it answers
\* with the queue length and the raw processing flag.
C24_StatusConflation ==
    [][\A t \in Tasks :
          /\ (pc[t] = "api_status_answer" /\ pc'[t] = "idle")
             => LET id == local[t].id
                    answer == Unwrap(result'.val.response)
                IN  /\ result'.op = "get_queue_status"
                    /\ result'.val.ok
                    /\ answer.request_id = id
                    /\ IF id \in QueueIds(queue)
                       THEN /\ answer.completed = FALSE
                            /\ answer.status =
                                  Some(QueueStatus(queue, Unwrap(position(queue, id)),
                                                   processing))
                       ELSE /\ answer.completed = TRUE
                            /\ answer.status = None
          /\ (pc[t] = "api_info_answer" /\ pc'[t] = "idle")
             => /\ result'.val.ok
                /\ Unwrap(result'.val.response) =
                      [queue_length |-> Len(queue), is_processing |-> processing]]_vars

\* a dequeued id, a cancelled id and an id that was never enqueued have all
\* been answered with completed=true; the latest answer is for the dequeued one
C24_Witness ==
    /\ result.op = "get_queue_status"
    /\ IsSome(result.arg)
    /\ Unwrap(result.arg) \in dequeued_ids
    /\ Unwrap(result.val.response).completed = TRUE
    /\ Unwrap(result.val.response).status = None
    /\ cancelled_ids # {}
    /\ queue # <<>>

\* ------------------------------------------------- request lifecycle claims
\* the ids that have left the queue by dequeue or cancel
LeftIds == dequeued_ids \cup cancelled_ids
StatusReturns(t) == pc[t] = "status_lock_processing" /\ pc'[t] = "idle"

\* C25: an id goes Queued -> Dequeued or Queued -> Cancelled and never back:
\* once an id has left the queue by dequeue or cancel, get_status(id) returns
\* absent, cancel(id) returns false and dequeue never returns that id again;
\* no two entries of the queue ever share an id.
C25_Lifecycle ==
    [][/\ \A id \in LeftIds : id \notin QueueIds(queue) /\ id \notin QueueIds(queue')
       /\ \A i \in 1..Len(queue'), j \in 1..Len(queue') :
             queue'[i].id = queue'[j].id => i = j
       /\ \A t \in Tasks :
             /\ (StatusReturns(t) /\ local[t].id \in LeftIds)
                => result'.op = "get_status" /\ result'.val = None
             /\ (CancelReturns(t) /\ local[t].id \in LeftIds)
                => result'.op = "cancel" /\ result'.val = Some(FALSE)
             /\ (DequeueReturns(t) /\ IsSome(result'.val))
                => Unwrap(result'.val).id \notin LeftIds]_vars

\* a cancel of a dequeued id has returned false while a cancelled id is also
\* out of the queue and another request is queued
C25_Witness ==
    /\ result.op = "cancel"
    /\ result.arg \in dequeued_ids
    /\ result.val = Some(FALSE)
    /\ cancelled_ids # {}
    /\ queue # <<>>

InfoReturns(t) == pc[t] = "info_lock_processing" /\ pc'[t] = "idle"

\* C30: get_status(id).is_processing is true exactly when the queue-wide
\* processing flag is true and id is at the head of the queue (index 0); for
\* every other queued id it is false even while the flag is true, whereas
\* get_queue_info returns the raw flag.
C30_PerItemProcessing ==
    [][\A t \in Tasks :
          /\ (StatusReturns(t) /\ IsSome(result'.val))
             => /\ result'.op = "get_status"
                /\ Unwrap(result'.val).is_processing
                      = (processing /\ queue[1].id = local[t].id)
                /\ (queue[1].id # local[t].id)
                      => Unwrap(result'.val).is_processing = FALSE
          /\ InfoReturns(t)
             => /\ result'.op = "get_queue_info"
                /\ Unwrap(result'.val) = <<Len(queue), processing>>]_vars

\* the flag is true and the status of the second request in the queue says false
C30_Witness ==
    /\ result.op = "get_status"
    /\ IsSome(result.val)
    /\ processing = TRUE
    /\ Len(queue) >= 2
    /\ queue[2].id = result.arg
    /\ Unwrap(result.val).is_processing = FALSE

\* ------------------------------------------------ metrics and management claims
BatchCounters == <<total_requests, cached_responses, deduplicated_requests,
                   batches_processed, total_batch_size>>
\* task t completes the counter reset of CacheService::clear on one of the caches
ClearResets(t, which) ==
    /\ pc[t] = "clear_reset"
    /\ Head(local[t].todo) = which
    /\ (pc'[t] = "idle" \/ local'[t].todo # local[t].todo)
RecognisedActions == {"clear", "clear_response_cache", "clear_conversation_cache",
                      "warm_model"}
ManageAnswers(t) == pc[t] = "idle" /\ pc'[t] = "idle" /\ result'.task = t
                    /\ result'.op = "manage_cache"

\* C26: the hit/miss counters of both caches and the BatchProcessor counters
\* are zero at construction and never decrease in a step other than
\* CacheService::clear, which resets only the hit/miss counters of the cache
\* it is called on and leaves the other cache's counters and all
\* BatchProcessor counters unchanged.
C26_MetricsLifecycle ==
    /\ hits = 0 /\ misses = 0
    /\ conversation_cache.hits = 0 /\ conversation_cache.misses = 0
    /\ \A i \in 1..Len(BatchCounters) : BatchCounters[i] = 0
    /\ [][/\ (hits' < hits \/ misses' < misses)
             => \E t \in Tasks : ClearResets(t, "response")
          /\ (conversation_cache.hits' < conversation_cache.hits
                \/ conversation_cache.misses' < conversation_cache.misses)
             => \E t \in Tasks : ClearResets(t, "conversation")
          /\ \A i \in 1..Len(BatchCounters) : BatchCounters'[i] >= BatchCounters[i]
          /\ \A t \in Tasks :
                /\ ClearResets(t, "response")
                   => /\ hits' = 0 /\ misses' = 0
                      /\ conversation_cache.hits' = conversation_cache.hits
                      /\ conversation_cache.misses' = conversation_cache.misses
                      /\ BatchCounters' = BatchCounters
                /\ ClearResets(t, "conversation")
                   => /\ conversation_cache.hits' = 0 /\ conversation_cache.misses' = 0
                      /\ hits' = hits /\ misses' = misses
                      /\ BatchCounters' = BatchCounters]_vars

\* the conversation cache was cleared while the response cache had counted
\* a hit and a miss, and they are still counted
C26_Witness ==
    /\ result.op = "manage_cache"
    /\ result.arg = "clear_conversation_cache"
    /\ result.val.ok
    /\ hits > 0
    /\ misses > 0
    /\ total_requests > 0

\* C27: manage_cache called with an action other than clear,
\* clear_response_cache, clear_conversation_cache or warm_model returns a
\* client input error and leaves the entries of both caches, all hit/miss and
\* batch counters and the queue unchanged, and issues no backend call.
C27_RejectNoSideEffects ==
    [][\A t \in Tasks :
          (ManageAnswers(t) /\ result'.arg \notin RecognisedActions)
          => /\ result'.val = Err("BAD_REQUEST")
             /\ UNCHANGED <<cache_store, inserted_at, conversation_cache, hits, misses>>
             /\ BatchCounters' = BatchCounters
             /\ UNCHANGED <<queue, processing, backend_calls>>]_vars

\* an unknown action was rejected while the response cache held an entry and
\* had counted a hit
C27_Witness ==
    /\ result.op = "manage_cache"
    /\ result.arg = "flush"
    /\ result.val = Err("BAD_REQUEST")
    /\ \E k \in DOMAIN cache_store : IsSome(cache_store[k])
    /\ hits > 0

\* C28: warm_model issues exactly one backend call and, whether it succeeds or
\* fails, neither reads nor writes the Response Cache and changes no hit/miss
\* counter and no BatchProcessor counter.
C28_WarmBypassesCache ==
    [][\A t \in Tasks :
          (ManageAnswers(t) /\ result'.arg = "warm_model")
          => /\ \E model \in ModelNames :
                   backend_calls' = [backend_calls EXCEPT ![warm_request(model)] = @ + 1]
             /\ UNCHANGED <<cache_store, inserted_at, set_log, hits, misses,
                            conversation_cache>>
             /\ BatchCounters' = BatchCounters]_vars

\* a warm call has failed after an earlier one, with the cache enabled and
\* holding an entry
C28_Witness ==
    /\ result.op = "manage_cache"
    /\ result.arg = "warm_model"
    /\ result.val = Err("INTERNAL_SERVER_ERROR")
    /\ \E model \in ModelNames : backend_calls[warm_request(model)] = 2
    /\ cache_enabled
    /\ \E k \in DOMAIN cache_store : IsSome(cache_store[k])

\* the process calls that have incremented total_requests and not yet returned
InFlight == {t \in Tasks : pc[t] \in {"process_get", "process_hit", "process_backend",
                                      "process_set", "process_done"}}

\* C29: under any number of concurrent process calls, total_requests =
\* cached_responses + batches_processed + the calls still in flight after
\* their total_requests increment + the calls that ended in a backend failure;
\* hence total_requests >= cached_responses + batches_processed,
\* batches_processed = total_batch_size and deduplicated_requests = 0.
C29_CounterBalance ==
    /\ total_requests = cached_responses + batches_processed
                           + Cardinality(InFlight) + failed_calls
    /\ total_requests >= cached_responses + batches_processed
    /\ batches_processed = total_batch_size
    /\ deduplicated_requests = 0

\* one call has failed, one has been answered by the backend and one is in
\* flight with a hit not yet counted
C29_Witness ==
    /\ failed_calls = 1
    /\ batches_processed = 1
    /\ \E t \in Tasks : pc[t] = "process_hit"
    /\ total_requests = 3

\* ------------------------------------------------------ status snapshot claim
\* C31: every QueueStatus get_status returns, in any interleaving with
\* concurrent enqueue, dequeue and cancel, has 1 <= queue_position <=
\* queue_length, both taken from one and the same queue state; and for two ids
\* queued at the same time the one enqueued earlier has the strictly smaller
\* position and the smaller-or-equal estimated wait.
C31_StatusSnapshot ==
    [][\A t \in Tasks :
          (StatusReturns(t) /\ IsSome(result'.val))
          => LET id == local[t].id
                 status == Unwrap(result'.val)
             IN  /\ 1 <= status.queue_position
                 /\ status.queue_position <= status.queue_length
                 /\ status.queue_length = Len(queue)
                 /\ queue[status.queue_position].id = id
                 \* against the status of every other id in the same queue
                 /\ \A o \in QueueIds(queue) \ {id} :
                       LET other == QueueStatus(queue, Unwrap(position(queue, o)),
                                                processing)
                       IN  EnqueueIndex(o) < EnqueueIndex(id)
                           => /\ other.queue_position < status.queue_position
                              /\ other.estimated_wait_time <= status.estimated_wait_time
                 \* against the status another reader was given in the step before
                 /\ (result.op = "get_status" /\ IsSome(result.val)
                       /\ result.arg # id)
                    => LET before == Unwrap(result.val)
                       IN  IF EnqueueIndex(result.arg) < EnqueueIndex(id)
                           THEN /\ before.queue_position < status.queue_position
                                /\ before.estimated_wait_time
                                      <= status.estimated_wait_time
                           ELSE /\ status.queue_position < before.queue_position
                                /\ status.estimated_wait_time
                                      <= before.estimated_wait_time]_vars

\* the last of two queued requests was given position 2 of 2 after an earlier
\* request had been dequeued
C31_Witness ==
    /\ result.op = "get_status"
    /\ IsSome(result.val)
    /\ Len(queue) = 2
    /\ queue[2].id = result.arg
    /\ Unwrap(result.val).queue_position = 2
    /\ Unwrap(result.val).queue_length = 2
    /\ dequeued_ids # {}

\* ----------------------------------------------------- uncached request claim
CacheUntouched == UNCHANGED <<cache_store, inserted_at, set_log, hits, misses>>

\* C32: for a chat request with use_cache=false, in the streaming and the
\* non-streaming path and for backend success and failure, the handler
\* performs no cache.get and no cache.set, so the cache contents and the
\* hit/miss counters are the same after the request as before it, and the
\* backend is always called; the live stream it answers with is built with
\* use_cache=false.
C32_UncachedIsolated ==
    [][\A t \in Tasks :
          /\ (ChatLooksUp(t) /\ ~CallOf(t).use_cache)
             => /\ pc'[t] = "chat_backend"
                /\ local'[t].effects = {}
                /\ CacheUntouched
                /\ backend_calls' = backend_calls
          /\ (pc[t] = "chat_backend" /\ ~local[t].use_cache /\ pc'[t] # "chat_backend")
             => /\ pc'[t] = "idle"
                /\ result'.task = t
                /\ result'.op = "chat"
                /\ result'.arg.effects \cap {"cache.get", "cache.set"} = {}
                /\ backend_calls' =
                      send(backend_calls,
                           OllamaRequest(local[t].model,
                                         all_messages(local[t].system_prompt,
                                                      local[t].messages)))
                /\ CacheUntouched
                /\ result'.val.ok
                   => Unwrap(result'.val.response) \in
                         IF local[t].stream
                         THEN {SseLive(local[t].cache_key, FALSE)}
                         ELSE {Json(ChatResponse(text, Some(FALSE))) : text \in Contents}
    ]_vars

\* a non-streaming request with use_cache=false was answered by the backend
\* while the enabled cache held an entry under the request's key
C32_Witness ==
    /\ result.op = "chat"
    /\ ~result.arg.use_cache
    /\ ~result.arg.stream
    /\ result.val.ok
    /\ cache_enabled
    /\ IsSome(cache_store[result.arg.cache_key])
    /\ hits = 0
    /\ \E r \in BackendRequests : backend_calls[r] = 2

====
